---- MODULE Spec2Model ----
(***************************************************************************)
(* A model of the eTravelogs deal automation: the flight and hotel         *)
(* scrapers (filter, merge with the previous output, deduplicate, sort,    *)
(* truncate, save) and the WordPress publisher (look up by slug, then      *)
(* update or create).                                                      *)
(*                                                                         *)
(* Conventions.  A JavaScript value that may be null is a sequence of      *)
(* length at most one: << >> is null, <<v>> is the value v.  A field a     *)
(* record does not have (undefined) is a field missing from the DOMAIN.    *)
(* A rating d.d is the integer number of tenths.  Time is counted in       *)
(* ticks, TicksPerDay of them to a day.                                    *)
(***************************************************************************)
EXTENDS Integers, Sequences, FiniteSets, TLC

----------------------------------------------------------------------------
(* Bounds of the model *)

\* Largest dollar amount a flight price element shows.
MaxPrice == 1300
\* Most price elements on one flight page.
MaxElems == 2
\* Hotel card prices run over 0 and MinCardPrice..MaxCardPrice.
MinCardPrice == 140
MaxCardPrice == 160
\* "Usually $X" amounts run over 0 and MinOriginal..MaxOriginal.
MinOriginal == 190
MaxOriginal == 210
\* Longest list handed to deduplicateDeals on its own.
MaxLen == 4
\* Clock granularity.
TicksPerDay == 2

----------------------------------------------------------------------------
(* JavaScript helpers *)

Null == << >>
Some(v) == <<v>>
IsNull(x) == x = << >>
Val(x) == x[1]
Nullable(S) == {Null} \cup {Some(v) : v \in S}

\* `${x}` for a field of a deal: the text of the value, "undefined" when the
\* field is absent.
Str(d, f) ==
    IF f \notin DOMAIN d THEN "undefined"
    ELSE IF f \in {"price", "pricePerNight"} THEN ToString(d[f]) ELSE d[f]

\* Values k for which ((2k+1)/200)*100 evaluates, in IEEE doubles, to a number
\* just below k + 0.5, so that Math.round gives k where exact arithmetic
\* rounds k + 0.5 up to k + 1.  Complete for -400 <= k <= 99.
FloatBelowHalf ==
    {-256, -237, -235, -233, -231, -212, -210, -208, -206, -125, -124, -123,
     -122, -56, -55, -28, -4, 14, 28, 56, 57}

\* Math.round(((typical - price) / typical) * 100), typical > 0.
PercentOffTruncated(typical, price) == (100 * (typical - price)) \div typical
PercentOff(typical, price) ==
    LET n == 200 * (typical - price) + typical
        q == n \div (2 * typical)
    IN  IF n % (2 * typical) = 0 /\ (q - 1) \in FloatBelowHalf THEN q - 1 ELSE q

\* (deal.percentOff || 0)
PctOrZero(d) == IF "percentOff" \in DOMAIN d THEN d.percentOff ELSE 0

----------------------------------------------------------------------------
(* Flight scraper configuration *)

originCities ==
    <<"JFK", "LAX", "SFO", "ORD", "MIA", "DFW", "BOS", "SEA", "DEN", "ATL">>

destinations ==
    <<"PAR", "LON", "TYO", "ROM", "BCN", "CUN", "LIS", "DUB", "AMS", "ICN",
      "BKK", "SIN">>

typicalPrices ==
    [PAR |-> 800, LON |-> 750, TYO |-> 1200, ROM |-> 850, BCN |-> 700,
     CUN |-> 400, LIS |-> 650, DUB |-> 600, AMS |-> 700, ICN |-> 1100,
     BKK |-> 900, SIN |-> 1000]

\* CONFIG.typicalPrices[destination.code] || 800
DefaultTypicalPrice == 800
TypicalPrice(code) ==
    IF code \in DOMAIN typicalPrices THEN typicalPrices[code]
    ELSE DefaultTypicalPrice

\* percentOff > 15
FlightMinPercentOff == 15
PassesFlightFilterInclusive(percentOff) == percentOff >= FlightMinPercentOff
PassesFlightFilter(percentOff) == percentOff > FlightMinPercentOff

\* The loop over priceElements: an element is Null when its text has no
\* "$digits", else Some(first dollar amount).
RECURSIVE LowestPriceFrom(_, _)
LowestPriceFrom(elems, lowestPrice) ==
    IF elems = << >> THEN lowestPrice
    ELSE LET el == Head(elems)
             next == IF IsNull(el) THEN lowestPrice
                     ELSE IF IsNull(lowestPrice) \/ Val(lowestPrice) = 0
                             \/ Val(el) < Val(lowestPrice)
                          THEN el
                          ELSE lowestPrice
         IN  LowestPriceFrom(Tail(elems), next)

LowestPrice(elems) == LowestPriceFrom(elems, Null)

\* The record scrapeGoogleFlights pushes.  A city's name is written as its
\* code.
FlightDeal(origin, dest, price, typicalPrice, percentOff, t) ==
    [origin |-> origin, originName |-> origin, destination |-> dest,
     destinationName |-> dest, price |-> price,
     typicalPrice |-> typicalPrice, percentOff |-> percentOff,
     source |-> "Google Flights", scrapedAt |-> t]

\* try { ... } catch (error) { console.error(...) } around the whole body of
\* scrapeGoogleFlights and of scrapeGoogleFlightsExplore: does an error inside
\* the function reach the caller?
flightScrapeThrowsUncaught(page) == page.throws
flightScrapeThrows(page) == FALSE

\* scrapeGoogleFlights(page, origin, destination) at time t.  page.throws:
\* the navigation timed out or anything else inside the try block threw.
scrapeGoogleFlights(page, origin, dest, t) ==
    IF page.throws THEN << >>
    ELSE LET lowestPrice == LowestPrice(page.elems)
         IN  IF IsNull(lowestPrice) \/ Val(lowestPrice) = 0 THEN << >>
             ELSE LET typicalPrice == TypicalPrice(dest)
                      percentOff == PercentOff(typicalPrice, Val(lowestPrice))
                  IN  IF PassesFlightFilter(percentOff)
                      THEN << FlightDeal(origin, dest, Val(lowestPrice),
                                         typicalPrice, percentOff, t) >>
                      ELSE << >>

----------------------------------------------------------------------------
(* Hotel scraper configuration *)

hotelDestinations ==
    <<"Paris", "London", "Tokyo", "Rome", "Barcelona", "Cancun", "New York",
      "Las Vegas", "Miami", "Honolulu", "San Francisco", "Los Angeles",
      "Amsterdam", "Dublin", "Lisbon", "Bangkok", "Singapore", "Bali",
      "Phuket", "Maldives">>

minDiscountPercent == 25
LuxuryMaxPrice == 150
LuxuryMinRating == 40

\* The condition of the if that pushes a hotel deal.
PassesHotelFilterStrict(percentOff, currentPrice, rating) ==
    \/ percentOff > minDiscountPercent
    \/ (currentPrice < LuxuryMaxPrice /\ ~IsNull(rating)
        /\ Val(rating) >= LuxuryMinRating)
PassesHotelFilter(percentOff, currentPrice, rating) ==
    \/ percentOff >= minDiscountPercent
    \/ (currentPrice < LuxuryMaxPrice /\ ~IsNull(rating)
        /\ Val(rating) >= LuxuryMinRating)

\* usuallyMatch ? usually : (wasMatch ? was : null)
OriginalPrice(card) == IF ~IsNull(card.usually) THEN card.usually ELSE card.was

\* percentOff of a card whose price matched.
CardPercentOffUnguarded(card) ==
    LET originalPrice == OriginalPrice(card)
    IN  IF ~IsNull(originalPrice) /\ Val(originalPrice) # 0
        THEN PercentOff(Val(originalPrice), Val(card.price))
        ELSE 0
CardPercentOff(card) ==
    LET originalPrice == OriginalPrice(card)
    IN  IF ~IsNull(originalPrice) /\ Val(originalPrice) # 0
           /\ Val(originalPrice) > Val(card.price)
        THEN PercentOff(Val(originalPrice), Val(card.price))
        ELSE 0

\* try { ... } catch (error) around the body of scrapeGoogleHotels and of
\* scrapeHotelDealPages: does an error inside the function reach the caller?
hotelScrapeThrows(page) == FALSE

\* The record scrapeGoogleHotels pushes.
HotelDeal(hotelName, location, price, originalPrice, percentOff, rating, t) ==
    [hotelName |-> hotelName, location |-> location, pricePerNight |-> price,
     originalPrice |-> originalPrice, percentOff |-> percentOff,
     rating |-> rating, source |-> "Google Hotels", scrapedAt |-> t]

\* The body of the loop over hotelCards in scrapeGoogleHotels, for one card.
\* card.throws: reading the card threw and the card is skipped.
scrapeHotelCard(card, location, t) ==
    IF card.throws \/ IsNull(card.price) THEN << >>
    ELSE LET currentPrice == Val(card.price)
             percentOff == CardPercentOff(card)
         IN  IF PassesHotelFilter(percentOff, currentPrice, card.rating)
             THEN << HotelDeal(IF IsNull(card.name) THEN "Hotel in " \o location
                               ELSE Val(card.name),
                               location, currentPrice, OriginalPrice(card),
                               percentOff, card.rating, t) >>
             ELSE << >>

----------------------------------------------------------------------------
(* Deduplication *)

flightKey(deal) ==
    Str(deal, "origin") \o "-" \o Str(deal, "destination") \o "-"
        \o Str(deal, "price")

hotelKey(deal) ==
    Str(deal, "hotelName") \o "-" \o Str(deal, "location") \o "-"
        \o Str(deal, "pricePerNight")

\* deals.filter(...) with the Set seen: keys[i] is the key of deals[i].
KeepLast(deals, keys) ==
    LET keep == {i \in 1..Len(deals) :
                    \A j \in (i + 1)..Len(deals) : keys[j] # keys[i]}
        RECURSIVE Go(_)
        Go(i) == IF i > Len(deals) THEN << >>
                 ELSE IF i \in keep THEN <<deals[i]>> \o Go(i + 1)
                 ELSE Go(i + 1)
    IN  Go(1)
KeepFirst(deals, keys) ==
    LET RECURSIVE Go(_, _)
        Go(i, seen) ==
            IF i > Len(deals) THEN << >>
            ELSE IF keys[i] \in seen THEN Go(i + 1, seen)
            ELSE <<deals[i]>> \o Go(i + 1, seen \cup {keys[i]})
    IN  Go(1, {})

deduplicateFlightDeals(deals) ==
    KeepFirst(deals, [i \in 1..Len(deals) |-> flightKey(deals[i])])

deduplicateHotelDeals(deals) ==
    KeepFirst(deals, [i \in 1..Len(deals) |-> hotelKey(deals[i])])

----------------------------------------------------------------------------
(* Sort and truncate *)

\* Array.prototype.sort with (a, b) => (b.percentOff || 0) - (a.percentOff || 0):
\* a stable sort, descending in percent-off.  Built by inserting each record
\* behind the records that are not smaller.
InsertAscending(sorted, d) ==
    LET n == Cardinality({i \in 1..Len(sorted) :
                            PctOrZero(sorted[i]) <= PctOrZero(d)})
    IN  SubSeq(sorted, 1, n) \o <<d>> \o SubSeq(sorted, n + 1, Len(sorted))
InsertDescending(sorted, d) ==
    LET n == Cardinality({i \in 1..Len(sorted) :
                            PctOrZero(sorted[i]) >= PctOrZero(d)})
    IN  SubSeq(sorted, 1, n) \o <<d>> \o SubSeq(sorted, n + 1, Len(sorted))

RECURSIVE SortInto(_, _)
SortInto(sorted, rest) ==
    IF rest = << >> THEN sorted
    ELSE SortInto(InsertDescending(sorted, Head(rest)), Tail(rest))

sortByPercentOff(deals) == SortInto(<< >>, deals)

\* sortedDeals.slice(0, 20)
TopCount == 20
topDealsOfUntruncated(sortedDeals) == sortedDeals
topDealsOf(sortedDeals) ==
    SubSeq(sortedDeals, 1,
           IF Len(sortedDeals) < TopCount THEN Len(sortedDeals) ELSE TopCount)

----------------------------------------------------------------------------
(* Clock, rotation *)

\* 7 * 24 * 60 * 60 * 1000 ms
SevenDays == 7 * TicksPerDay

\* new Date().getDay(): 0 = Sunday ... 6 = Saturday.  Tick 0 opens a Sunday.
DayOfWeek(t) == (t \div TicksPerDay) % 7

\* CONFIG.dayRotation of the flight scraper; the entries index (from 0)
\* originCities and destinations.
flightDayRotation ==
    [d \in 0..6 |->
        CASE d = 0 -> [origins |-> <<0, 1>>, destinations |-> <<0, 1, 2, 3, 4, 5>>]
          [] d = 1 -> [origins |-> <<2, 3>>, destinations |-> <<0, 1, 2, 3, 4, 5>>]
          [] d = 2 -> [origins |-> <<4, 5>>, destinations |-> <<6, 7, 8, 9, 10, 11>>]
          [] d = 3 -> [origins |-> <<6, 7>>, destinations |-> <<6, 7, 8, 9, 10, 11>>]
          [] d = 4 -> [origins |-> <<8, 9>>, destinations |-> <<0, 1, 2, 3, 4, 5>>]
          [] d = 5 -> [origins |-> <<0, 1, 2>>, destinations |-> <<6, 7, 8, 9, 10, 11>>]
          [] d = 6 -> [origins |-> <<0, 1, 2, 3, 4>>, destinations |-> <<0, 1, 2, 5>>]]

\* list[i] of JavaScript for a zero-based index i: undefined when the list has
\* no element at i.
ElementAt(list, i) ==
    IF i + 1 \in 1..Len(list) THEN list[i + 1] ELSE "undefined"

\* rotation.origins.map(i => CONFIG.originCities[i]) and the same for
\* destinations.
todaysOriginsOneBased(d) ==
    [k \in 1..Len(flightDayRotation[d].origins) |->
        ElementAt(originCities, flightDayRotation[d].origins[k] - 1)]
todaysOrigins(d) ==
    [k \in 1..Len(flightDayRotation[d].origins) |->
        ElementAt(originCities, flightDayRotation[d].origins[k])]
todaysDestinations(d) ==
    [k \in 1..Len(flightDayRotation[d].destinations) |->
        ElementAt(destinations, flightDayRotation[d].destinations[k])]

\* todaysOrigins.slice(0, 2): the origins the Explore pass visits.
ExploreOriginCount == 2
exploreOrigins(d) ==
    SubSeq(todaysOrigins(d), 1,
           IF Len(todaysOrigins(d)) < ExploreOriginCount
           THEN Len(todaysOrigins(d)) ELSE ExploreOriginCount)

\* CONFIG.dayRotation of the hotel scraper.
hotelDayRotation ==
    [d \in 0..6 |->
        CASE d = 0 -> <<0, 1, 2, 3, 4, 5, 6>>
          [] d = 1 -> <<7, 8, 9, 10, 11, 12>>
          [] d = 2 -> <<13, 14, 15, 16, 17>>
          [] d = 3 -> <<18, 19, 0, 1, 2>>
          [] d = 4 -> <<3, 4, 5, 6, 7, 8>>
          [] d = 5 -> <<9, 10, 11, 12, 13, 14>>
          [] d = 6 -> <<0, 1, 2, 15, 16, 17, 18, 19>>]

\* rotation.map(i => CONFIG.destinations[i]).
todaysHotelDestinationsOneBased(d) ==
    [k \in 1..Len(hotelDayRotation[d]) |->
        ElementAt(hotelDestinations, hotelDayRotation[d][k] - 1)]
todaysHotelDestinations(d) ==
    [k \in 1..Len(hotelDayRotation[d]) |->
        ElementAt(hotelDestinations, hotelDayRotation[d][k])]

----------------------------------------------------------------------------
(* The output files flights.json and hotels.json *)

\* A file is missing, unreadable (readFileSync throws), corrupt (JSON.parse
\* throws), or ok with the parsed object: generated, count and, unless the
\* object has no such key, deals.
MissingFile == [status |-> "missing"]
UnreadableFile == [status |-> "unreadable"]
CorruptFile == [status |-> "corrupt"]
DealsFile(generated, deals) ==
    [status |-> "ok", generated |-> generated, count |-> Len(deals),
     deals |-> deals]
NoDealsKeyFile == [status |-> "ok", generated |-> 0, count |-> 0]

\* JSON.parse(fs.readFileSync(filePath, 'utf8')) throws.
ReadThrows(file) == file.status \in {"missing", "unreadable", "corrupt"}

\* (data.deals || [])
DealsOrEmpty(file) == IF "deals" \in DOMAIN file THEN file.deals ELSE << >>

\* the filter of loadExistingDeals: scrapedAt > sevenDaysAgo.  A record
\* without scrapedAt gives an invalid date, which compares false.
IsRecentInclusive(deal, t) ==
    "scrapedAt" \in DOMAIN deal /\ deal.scrapedAt >= t - SevenDays
IsRecent(deal, t) ==
    "scrapedAt" \in DOMAIN deal /\ deal.scrapedAt > t - SevenDays

\* loadExistingDeals() at time t: [threw, deals].  existsSync guards the read,
\* and the try/catch turns every throw into the empty list.
loadExistingDealsUncaught(file, t) ==
    IF file.status = "missing" THEN [threw |-> FALSE, deals |-> << >>]
    ELSE IF ReadThrows(file) THEN [threw |-> TRUE, deals |-> << >>]
    ELSE [threw |-> FALSE,
          deals |-> SelectSeq(DealsOrEmpty(file), LAMBDA d : IsRecent(d, t))]
loadExistingDeals(file, t) ==
    IF file.status = "missing" THEN [threw |-> FALSE, deals |-> << >>]
    ELSE IF ReadThrows(file) THEN [threw |-> FALSE, deals |-> << >>]
    ELSE [threw |-> FALSE,
          deals |-> SelectSeq(DealsOrEmpty(file), LAMBDA d : IsRecent(d, t))]

\* allDeals = allDeals.concat(existingDeals): the deals of this run first, the
\* loaded ones after them.
mergeDealsLoadedFirst(scraped, existing) == existing \o scraped
mergeDeals(scraped, existing) == scraped \o existing

\* saveDeals(deals) at time t: the file is replaced by
\* { generated, count: deals.length, deals }.
saveDealsFixedCount(deals, t) ==
    [status |-> "ok", generated |-> t, count |-> TopCount, deals |-> deals]
saveDeals(deals, t) ==
    [status |-> "ok", generated |-> t, count |-> Len(deals), deals |-> deals]

----------------------------------------------------------------------------
(* The post generator: post-generator.js *)

\* try { JSON.parse(fs.readFileSync(...)); deals = data.deals || [] }
\* catch (e) { console.log(...) } in generatePosts, for one file: [threw, deals].
generatePostsLoad(file) ==
    IF ReadThrows(file) THEN [threw |-> FALSE, deals |-> << >>]
    ELSE [threw |-> FALSE, deals |-> DealsOrEmpty(file)]

\* The same two blocks at the head of generateAndPublish, for both files.
loadDealsForPublish(flights, hotels) ==
    [threw |-> FALSE,
     flightDeals |-> IF ReadThrows(flights) THEN << >> ELSE DealsOrEmpty(flights),
     hotelDeals |-> IF ReadThrows(hotels) THEN << >> ELSE DealsOrEmpty(hotels)]

\* WP_CONFIG.username and WP_CONFIG.appPassword as read from the environment:
\* unset, set to the empty text, or set.
Credentials(username, appPassword) ==
    [username |-> username, appPassword |-> appPassword]
NoCredentials == Credentials(Null, Null)

\* !value for a text or undefined.
Falsy(value) == IsNull(value) \/ Val(value) = ""

\* if (!WP_CONFIG.username || !WP_CONFIG.appPassword) in publishToWordPress.
missingCredentialsBoth(config) ==
    Falsy(config.username) /\ Falsy(config.appPassword)
missingCredentials(config) ==
    Falsy(config.username) \/ Falsy(config.appPassword)

\* if (flightDeals.length > 0), if (hotelDeals.length > 0) in
\* generateAndPublish.
hasDealsOrNone(deals) == Len(deals) >= 0
hasDeals(deals) == Len(deals) > 0

flightSlug(date) == <<"todays-best-flight-deals", date>>
hotelSlug(date) == <<"todays-best-hotel-deals", date>>

\* deal.percentOff > 0 ? "(N% off ...)" : '' -- undefined > 0 is false.
ShownPercentOff(deal) ==
    IF "percentOff" \in DOMAIN deal /\ deal.percentOff > 0
    THEN Some(deal.percentOff) ELSE Null

\* One deal card of the flight post; index counts from 0.
flightCard(deal, index) ==
    [kind |-> "card",
     emoji |-> IF index = 0 THEN "trophy" ELSE IF index < 3 THEN "plane"
               ELSE "ticket",
     originName |-> Str(deal, "originName"),
     destinationName |-> Str(deal, "destinationName"),
     price |-> Str(deal, "price"),
     percentOff |-> ShownPercentOff(deal)]

\* One deal card of the hotel post.
hotelCard(deal, index) ==
    [kind |-> "card",
     emoji |-> IF index = 0 THEN "trophy" ELSE IF index < 3 THEN "hotel"
               ELSE "bed",
     hotelName |-> Str(deal, "hotelName"),
     location |-> Str(deal, "location"),
     price |-> Str(deal, "pricePerNight"),
     percentOff |-> ShownPercentOff(deal)]

\* <p>Check back later - we're still searching for today's best deals!</p>
FallbackParagraph == [kind |-> "fallback"]

\* if (deals.length === 0) { fallback } else { deals.forEach(card) }
flightDealBlocksAlwaysCards(deals) ==
    [i \in 1..Len(deals) |-> flightCard(deals[i], i - 1)]
flightDealBlocks(deals) ==
    IF Len(deals) = 0 THEN <<FallbackParagraph>>
    ELSE [i \in 1..Len(deals) |-> flightCard(deals[i], i - 1)]
hotelDealBlocks(deals) ==
    IF Len(deals) = 0 THEN <<FallbackParagraph>>
    ELSE [i \in 1..Len(deals) |-> hotelCard(deals[i], i - 1)]

\* deals[0]?.price || 'TBD'
BestOrTBD(deals, f) ==
    IF deals # << >> /\ f \in DOMAIN deals[1] /\ deals[1][f] # 0
    THEN Str(deals[1], f) ELSE "TBD"

\* generateFlightDealsPost(deals, date): content is the sequence of blocks of
\* the template.
generateFlightDealsPost(deals, date) ==
    [title |-> <<"Today's Best Flight Deals", date>>,
     slug |-> flightSlug(date),
     content |-> <<[kind |-> "intro", date |-> date],
                   [kind |-> "heading", text |-> "Today's Top Flight Deals"]>>
                 \o flightDealBlocks(deals)
                 \o <<[kind |-> "tips"], [kind |-> "calculator"],
                      [kind |-> "footer", date |-> date]>>,
     excerpt |-> [count |-> Len(deals), best |-> BestOrTBD(deals, "price")]]

\* generateHotelDealsPost(deals, date)
generateHotelDealsPost(deals, date) ==
    [title |-> <<"Today's Best Hotel Deals", date>>,
     slug |-> hotelSlug(date),
     content |-> <<[kind |-> "intro", date |-> date,
                    promise |-> "top properties with at least 25% off"],
                   [kind |-> "heading", text |-> "Today's Top Hotel Deals"]>>
                 \o hotelDealBlocks(deals)
                 \o <<[kind |-> "tips"], [kind |-> "footer", date |-> date]>>,
     excerpt |-> [count |-> Len(deals),
                  best |-> BestOrTBD(deals, "pricePerNight")]]

\* generatePosts() on the two files at the given date: what it loaded, the two
\* posts it returns, and the files it wrote under output/posts.
generatePosts(flights, hotels, date) ==
    LET f == generatePostsLoad(flights)
        h == generatePostsLoad(hotels)
    IN  IF f.threw \/ h.threw THEN [threw |-> TRUE]
        ELSE [threw |-> FALSE,
              flightDeals |-> f.deals,
              hotelDeals |-> h.deals,
              flightPost |-> generateFlightDealsPost(f.deals, date),
              hotelPost |-> generateHotelDealsPost(h.deals, date),
              written |-> {"flight-deals-post.json", "hotel-deals-post.json",
                           "flight-deals-content.html",
                           "hotel-deals-content.html"}]

\* The response of the slug lookup as existingPosts: a JSON array of posts
\* (length defined), or an error object, which has no length.
PostList(items) == [length |-> Some(Len(items)), items |-> items]
ErrorBody == [length |-> Null, items |-> << >>]

\* if (existingPosts.length > 0) -- undefined > 0 is false.
postExistsSeveral(existingPosts) ==
    ~IsNull(existingPosts.length) /\ Val(existingPosts.length) > 1
postExistsOrEmpty(existingPosts) ==
    ~IsNull(existingPosts.length) /\ Val(existingPosts.length) >= 0
postExists(existingPosts) ==
    ~IsNull(existingPosts.length) /\ Val(existingPosts.length) > 0

\* postData of the create call.
postDataWithoutSlug(post, categoryId) ==
    [title |-> post.title, slug |-> Null, content |-> post.content,
     excerpt |-> post.excerpt, status |-> "publish",
     categories |-> <<categoryId>>, tags |-> << >>]
postData(post, categoryId) ==
    [title |-> post.title, slug |-> Some(post.slug), content |-> post.content,
     excerpt |-> post.excerpt, status |-> "publish",
     categories |-> <<categoryId>>, tags |-> << >>]

\* The body of the update call.
updateDataWithTitle(post) ==
    [title |-> post.title, content |-> post.content, excerpt |-> post.excerpt]
updateData(post) == [content |-> post.content, excerpt |-> post.excerpt]

flightCategoryId == 39
hotelCategoryId == 40

\* try { results.x = await publishToWordPress(...) } catch (err)
\* { console.error(...) } in generateAndPublish: does the error leave it?
publishErrorEscapesUncaught == TRUE
publishErrorEscapes == FALSE

----------------------------------------------------------------------------
(* State *)

VARIABLES
    call,       \* the function call under study: [fn |-> ..., ...arguments]
    ret,        \* Null before the call returns, Some(result) after
    now,        \* the clock, in ticks
    pc,         \* where the scraper process is
    day,        \* the day of the week the running scraper read
    oi,         \* index of the origin (or hotel destination) being scraped
    di,         \* index of the flight destination being scraped
    allDeals,   \* allDeals of the running scraper
    existingDeals, \* what loadExistingDeals returned to the running scraper
    topDeals,   \* the list the scraper returned
    visited,    \* the items scraped so far in this run (the console lines)
    errors,     \* number of scrape errors logged since the start
    priced,     \* number of pages that have shown prices since the start
    runs,       \* number of scraper runs started
    exitCode,   \* Null while running, Some(code) once the process has exited
    flightsFile, \* output/flights.json
    hotelsFile, \* output/hotels.json
    creds,      \* WP_CONFIG.username and WP_CONFIG.appPassword
    wp,         \* the posts of the WordPress site, newest first
    http,       \* the requests sent to the site so far, in order
    pub,        \* the state of each run of post-generator.js --publish
    runAll,     \* the locals of runAllScrapers and what its scrapers read
    dealsFile   \* output/deals.json

fnVars == <<call, ret>>
runVars == <<pc, day, oi, di, allDeals, existingDeals, topDeals, visited,
             exitCode>>
envVars == <<now, errors, priced, runs>>
diskVars == <<flightsFile, hotelsFile>>
pubVars == <<creds, wp, http, pub>>
allVars == <<runAll, dealsFile>>
vars == <<fnVars, runVars, envVars, diskVars, pubVars, allVars>>

\* The values of the variables a specification does not use.
FnUnused == call = [fn |-> "none"] /\ ret = Null
ScraperUnused ==
    /\ pc = "unused" /\ day = 0 /\ oi = 0 /\ di = 0
    /\ allDeals = << >> /\ existingDeals = << >> /\ topDeals = << >>
    /\ visited = << >> /\ exitCode = Null
    /\ now = 0 /\ errors = 0 /\ priced = 0 /\ runs = 0
DiskUnused == flightsFile = MissingFile /\ hotelsFile = MissingFile

\* The two runs of post-generator.js --publish that may overlap.
Procs == {"a", "b"}
Types == {"flights", "hotels"}
NoRun ==
    [pc |-> "idle", today |-> 0, flightDeals |-> << >>, hotelDeals |-> << >>,
     type |-> "none", attempted |-> {},
     found |-> [t \in Types |-> Null],
     results |-> [t \in Types |-> Null],
     threw |-> [t \in Types |-> FALSE]]
PublisherIdle == wp = << >> /\ http = << >> /\ pub = [p \in Procs |-> NoRun]
PublisherUnused == creds = NoCredentials /\ PublisherIdle

\* runAllScrapers has not been called: let flightDeals = [], let hotelDeals =
\* [] are still to come, no scraper has read the day, nothing is logged.
NoRunAll ==
    [dayOfWeek |-> 0, flightDeals |-> << >>, hotelDeals |-> << >>,
     flightDay |-> Null, hotelDay |-> Null, aggregator |-> FALSE,
     log |-> << >>]
RunAllUnused == runAll = NoRunAll /\ dealsFile = MissingFile

----------------------------------------------------------------------------
(* The functions on their own: Init draws a call, the action applies it *)

\* A flight results page: it throws, or it shows price elements.
FlightPage(throws, elems) == [throws |-> throws, elems |-> elems]

\* Element texts used on pages with several elements.
ElemSamples == {Null, Some(0), Some(1), Some(676), Some(680)}

SeqsUpTo(S, n) == UNION {[1..k -> S] : k \in 0..n}

FlightPages ==
    {FlightPage(TRUE, << >>)}
    \cup {FlightPage(FALSE, <<Some(p)>>) : p \in 0..MaxPrice}
    \cup {FlightPage(FALSE, e) : e \in SeqsUpTo(ElemSamples, MaxElems)}

FlightCalls ==
    [fn : {"scrapeGoogleFlights"}, origin : {"JFK"},
     dest : {destinations[i] : i \in 1..Len(destinations)},
     page : FlightPages]

CardPrices == {0} \cup (MinCardPrice..MaxCardPrice)
Originals == {0} \cup (MinOriginal..MaxOriginal)

\* A hotel card as the regular expressions see it.  "Usually $X" and "was $X"
\* both contain "$digits", so either one matching means the price matched.
HotelCards ==
    {c \in [price : Nullable(CardPrices), usually : Nullable(Originals),
            was : Nullable({MinCardPrice}), rating : Nullable({39, 40}),
            name : Nullable({"Ritz"}), throws : BOOLEAN] :
        (~IsNull(c.usually) \/ ~IsNull(c.was)) => ~IsNull(c.price)}

HotelCardCalls ==
    [fn : {"scrapeHotelCard"}, location : {"Paris"}, card : HotelCards]

\* scrapeHotelDealPages pushes records without location.
KayakDeal(price, discount, t) ==
    [hotelName |-> "Kayak Deal", pricePerNight |-> price,
     percentOff |-> discount, source |-> "Kayak Deals", scrapedAt |-> t]

\* scrapeGoogleFlightsExplore pushes records without percentOff.
ExploreDeal(origin, city, price, t) ==
    [origin |-> origin, originName |-> origin, destination |-> city,
     price |-> price, source |-> "Google Flights Explore", scrapedAt |-> t]

FlightDealSamples ==
    {scrapeGoogleFlights(FlightPage(FALSE, <<Some(p)>>), o, "PAR", t)[1] :
        o \in {"JFK", "LAX"}, p \in {1, 500}, t \in {0, 1}}
    \cup {ExploreDeal("JFK", "Paris", 500, 0)}

HotelDealSamples ==
    {scrapeHotelCard([price |-> Some(MinCardPrice), usually |-> Some(MaxOriginal),
                      was |-> Null, rating |-> r, name |-> n,
                      throws |-> FALSE], "Paris", t)[1] :
        r \in Nullable({40}), n \in Nullable({"Ritz"}), t \in {0}}
    \cup {KayakDeal(MinCardPrice, 30, 0)}

DedupCalls ==
    [fn : {"deduplicateFlightDeals"}, deals : SeqsUpTo(FlightDealSamples, MaxLen)]
    \cup [fn : {"deduplicateHotelDeals"}, deals : SeqsUpTo(HotelDealSamples, MaxLen)]

\* Output files for the functions that read them: unusable ones, one without
\* a deals key, and ones with up to two deals scraped at tick 0 or 1.
FlightFileSamples ==
    {MissingFile, UnreadableFile, CorruptFile, NoDealsKeyFile}
    \cup {DealsFile(1, ds) :
            ds \in SeqsUpTo({d \in FlightDealSamples : d.origin = "JFK"}, 2)}
HotelFileSamples ==
    {MissingFile, UnreadableFile, CorruptFile, NoDealsKeyFile,
     DealsFile(1, << >>),
     DealsFile(1, <<KayakDeal(MinCardPrice, 30, 0)>>)}

LoadCalls ==
    [fn : {"loadExistingDeals"}, file : FlightFileSamples,
     t : {SevenDays, SevenDays + 1}]
PostCalls ==
    [fn : {"generatePosts", "loadDealsForPublish"}, flights : FlightFileSamples,
     hotels : HotelFileSamples, date : {0}]

RenderCalls ==
    [fn : {"generateFlightDealsPost"},
     deals : SeqsUpTo(FlightDealSamples, MaxLen), date : {0}]
    \cup [fn : {"generateHotelDealsPost"},
          deals : SeqsUpTo(HotelDealSamples, MaxLen), date : {0}]

\* The Expedia flight link.  A text about to be put into a link is a sequence
\* of pieces, each piece either a run of letters, digits, '.', '-', '_', '*'
\* or one other character; Join gives the text itself.
RECURSIVE Join(_)
Join(pieces) ==
    IF pieces = << >> THEN "" ELSE Head(pieces) \o Join(Tail(pieces))

\* CONFIG.expediaPublisherId and CONFIG.expediaAffiliateTag, no environment
\* variable set.
expediaPublisherId == "1011l387199"
expediaAffiliateTag == "etravelogs"

\* format(date, 'MM/dd/yyyy') of date-fns: month and day on two digits.
TwoDigits(n) == IF n < 10 THEN "0" \o ToString(n) ELSE ToString(n)
formatDate(date) ==
    <<TwoDigits(date.month), "/", TwoDigits(date.day), "/", ToString(date.year)>>

\* `from:${origin},to:${dest},departure:${departStr}TANYT`
legText(from, to, date) ==
    <<"from", ":", from, ",", "to", ":", to, ",", "departure", ":">>
        \o formatDate(date) \o <<"TANYT">>
\* `adults:${passengers}`
passengersText(passengers) == <<"adults", ":", ToString(passengers)>>
\* `US.DIRECT.PHG.${CONFIG.expediaPublisherId}.${CONFIG.expediaAffiliateTag}`
affcidText == <<"US.DIRECT.PHG.", expediaPublisherId, ".", expediaAffiliateTag>>

baseUrl == "https://www.expedia.com/Flights-Search"

\* generateExpediaLink of the rotating flight scraper: the texts are put into
\* the link as they are.
generateExpediaLink(origin, dest, departDate, returnDate, passengers) ==
    baseUrl \o "?trip=roundtrip&leg1=" \o Join(legText(origin, dest, departDate))
        \o "&leg2=" \o Join(legText(dest, origin, returnDate))
        \o "&passengers=" \o Join(passengersText(passengers))
        \o "&AFFCID=" \o Join(affcidText)

\* The application/x-www-form-urlencoded serializer behind
\* URLSearchParams.toString(): letters, digits, '*', '-', '.', '_' stay, a
\* space becomes '+', every other character becomes its %XX escape.
percentEncode(piece) ==
    CASE piece = ":" -> "%3A"
      [] piece = "," -> "%2C"
      [] piece = "/" -> "%2F"
      [] piece = " " -> "+"
      [] OTHER -> piece
urlEncode(text) == Join([k \in 1..Len(text) |-> percentEncode(text[k])])

\* new URLSearchParams({...}).toString(): name=value pairs joined by '&'.
RECURSIVE searchParamsToString(_)
searchParamsToString(params) ==
    IF params = << >> THEN ""
    ELSE urlEncode(params[1].name) \o "=" \o urlEncode(params[1].value)
            \o (IF Len(params) > 1 THEN "&" ELSE "")
            \o searchParamsToString(Tail(params))

\* generateExpediaLink of src/scrapers/flight-deals.js: the texts go through
\* URLSearchParams.
generateExpediaLinkSearchParams(origin, dest, departDate, returnDate, passengers) ==
    baseUrl \o "?" \o searchParamsToString(
        <<[name |-> <<"trip">>, value |-> <<"roundtrip">>],
          [name |-> <<"leg1">>, value |-> legText(origin, dest, departDate)],
          [name |-> <<"leg2">>, value |-> legText(dest, origin, returnDate)],
          [name |-> <<"passengers">>, value |-> passengersText(passengers)],
          [name |-> <<"AFFCID">>, value |-> affcidText]>>)

\* Calendar dates of the calls: a one-digit month and day, a two-digit month
\* and day.
LinkDates ==
    {[year |-> 2025, month |-> 3, day |-> 5],
     [year |-> 2025, month |-> 12, day |-> 25]}

LinkCalls ==
    [fn : {"generateExpediaLink", "generateExpediaLinkSearchParams"},
     origin : {"JFK", "LAX"}, dest : {"PAR", "CUN"},
     departDate : LinkDates, returnDate : LinkDates, passengers : 1..MaxElems]

\* new Date().getDay() is one of 0 (Sunday) .. 6 (Saturday).
WeekDays == 0..6

RotationCalls ==
    [fn : {"getTodayFlightRotation", "getTodayHotelRotation"}, day : WeekDays]

FnInit ==
    /\ RunAllUnused
    /\ call \in FlightCalls \cup HotelCardCalls \cup DedupCalls \cup LoadCalls
                \cup PostCalls \cup RenderCalls \cup RotationCalls \cup LinkCalls
    /\ ret = Null
    /\ ScraperUnused
    /\ DiskUnused
    /\ PublisherUnused

ApplyScrapeGoogleFlights ==
    /\ IsNull(ret)
    /\ call.fn = "scrapeGoogleFlights"
    /\ ret' = Some(scrapeGoogleFlights(call.page, call.origin, call.dest, 0))
    /\ UNCHANGED <<allVars, pubVars, call, runVars, envVars, diskVars>>

ApplyScrapeHotelCard ==
    /\ IsNull(ret)
    /\ call.fn = "scrapeHotelCard"
    /\ ret' = Some(scrapeHotelCard(call.card, call.location, 0))
    /\ UNCHANGED <<allVars, pubVars, call, runVars, envVars, diskVars>>

ApplyDeduplicateFlightDeals ==
    /\ IsNull(ret)
    /\ call.fn = "deduplicateFlightDeals"
    /\ ret' = Some(deduplicateFlightDeals(call.deals))
    /\ UNCHANGED <<allVars, pubVars, call, runVars, envVars, diskVars>>

ApplyDeduplicateHotelDeals ==
    /\ IsNull(ret)
    /\ call.fn = "deduplicateHotelDeals"
    /\ ret' = Some(deduplicateHotelDeals(call.deals))
    /\ UNCHANGED <<allVars, pubVars, call, runVars, envVars, diskVars>>

ApplyLoadExistingDeals ==
    /\ IsNull(ret)
    /\ call.fn = "loadExistingDeals"
    /\ ret' = Some(loadExistingDeals(call.file, call.t))
    /\ UNCHANGED <<allVars, pubVars, call, runVars, envVars, diskVars>>

ApplyGeneratePosts ==
    /\ IsNull(ret)
    /\ call.fn = "generatePosts"
    /\ ret' = Some(generatePosts(call.flights, call.hotels, call.date))
    /\ UNCHANGED <<allVars, pubVars, call, runVars, envVars, diskVars>>

\* The head of generateAndPublish, up to const results.
ApplyLoadDealsForPublish ==
    /\ IsNull(ret)
    /\ call.fn = "loadDealsForPublish"
    /\ ret' = Some(loadDealsForPublish(call.flights, call.hotels))
    /\ UNCHANGED <<allVars, pubVars, call, runVars, envVars, diskVars>>

ApplyGenerateFlightDealsPost ==
    /\ IsNull(ret)
    /\ call.fn = "generateFlightDealsPost"
    /\ ret' = Some(generateFlightDealsPost(call.deals, call.date))
    /\ UNCHANGED <<allVars, pubVars, call, runVars, envVars, diskVars>>

ApplyGenerateHotelDealsPost ==
    /\ IsNull(ret)
    /\ call.fn = "generateHotelDealsPost"
    /\ ret' = Some(generateHotelDealsPost(call.deals, call.date))
    /\ UNCHANGED <<allVars, pubVars, call, runVars, envVars, diskVars>>

\* getTodayRotation of the flight scraper and the two maps that follow it in
\* scrapeFlightDeals.
ApplyGetTodayFlightRotation ==
    /\ IsNull(ret)
    /\ call.fn = "getTodayFlightRotation"
    /\ ret' = Some([rotation |-> flightDayRotation[call.day],
                    origins |-> todaysOrigins(call.day),
                    destinations |-> todaysDestinations(call.day)])
    /\ UNCHANGED <<allVars, pubVars, call, runVars, envVars, diskVars>>

\* getTodayRotation of the hotel scraper and the map that follows it in
\* scrapeHotelDeals.
ApplyGetTodayHotelRotation ==
    /\ IsNull(ret)
    /\ call.fn = "getTodayHotelRotation"
    /\ ret' = Some([rotation |-> hotelDayRotation[call.day],
                    destinations |-> todaysHotelDestinations(call.day)])
    /\ UNCHANGED <<allVars, pubVars, call, runVars, envVars, diskVars>>

ApplyGenerateExpediaLink ==
    /\ IsNull(ret)
    /\ call.fn = "generateExpediaLink"
    /\ ret' = Some(generateExpediaLink(call.origin, call.dest, call.departDate,
                                       call.returnDate, call.passengers))
    /\ UNCHANGED <<allVars, pubVars, call, runVars, envVars, diskVars>>

ApplyGenerateExpediaLinkSearchParams ==
    /\ IsNull(ret)
    /\ call.fn = "generateExpediaLinkSearchParams"
    /\ ret' = Some(generateExpediaLinkSearchParams(call.origin, call.dest,
                        call.departDate, call.returnDate, call.passengers))
    /\ UNCHANGED <<allVars, pubVars, call, runVars, envVars, diskVars>>

FnNext ==
    \/ ApplyScrapeGoogleFlights
    \/ ApplyScrapeHotelCard
    \/ ApplyDeduplicateFlightDeals
    \/ ApplyDeduplicateHotelDeals
    \/ ApplyLoadExistingDeals
    \/ ApplyGeneratePosts
    \/ ApplyLoadDealsForPublish
    \/ ApplyGenerateFlightDealsPost
    \/ ApplyGenerateHotelDealsPost
    \/ ApplyGetTodayFlightRotation
    \/ ApplyGetTodayHotelRotation
    \/ ApplyGenerateExpediaLink
    \/ ApplyGenerateExpediaLinkSearchParams

SpecFn == FnInit /\ [][FnNext]_vars

----------------------------------------------------------------------------
(* The scrapers as processes: bounds and the pages they may see *)

\* Scraper runs started.
MaxRuns == 1
\* Scrape errors (a navigation timeout, any throw inside a scrape function).
MaxFail == 1
\* Pages that show prices.
MaxPriced == 1
\* Cards on one Explore, hotel or Kayak page.
MaxCards == 2

\* Time that may pass between two runs.
Gaps == {0, TicksPerDay}

\* A flight deal as a run would have scraped it at time t.
ScrapedFlight(origin, dest, price, t) ==
    FlightDeal(origin, dest, price, TypicalPrice(dest),
               PercentOff(TypicalPrice(dest), price), t)

\* The flight pages of the runs: a throw, no price element, or one price: $1,
\* the price at 16% off and a price at 15% off.
RunFlightPages(dest) ==
    {FlightPage(TRUE, << >>), FlightPage(FALSE, << >>)}
    \cup {FlightPage(FALSE, <<Some(p)>>) :
            p \in {1, (84 * TypicalPrice(dest)) \div 100,
                      (85 * TypicalPrice(dest)) \div 100}}

\* An Explore card: reading it throws, or the price and the city match or not.
ExploreCard(throws, price, city) ==
    [throws |-> throws, price |-> price, city |-> city]
RunExploreCards ==
    {ExploreCard(TRUE, Null, Null), ExploreCard(FALSE, Some(300), Null),
     ExploreCard(FALSE, Some(300), Some("Paris"))}
ExplorePage(throws, cards) == [throws |-> throws, cards |-> cards]
RunExplorePages ==
    {ExplorePage(TRUE, << >>)}
    \cup {ExplorePage(FALSE, c) : c \in SeqsUpTo(RunExploreCards, MaxCards)}

\* cards.slice(0, 10)
ExploreCardLimit == 10

\* scrapeGoogleFlightsExplore(page, origin) at time t.
scrapeGoogleFlightsExplore(page, origin, t) ==
    IF page.throws THEN << >>
    ELSE LET n == IF Len(page.cards) < ExploreCardLimit THEN Len(page.cards)
                  ELSE ExploreCardLimit
             RECURSIVE Go(_)
             Go(i) ==
                IF i > n THEN << >>
                ELSE LET c == page.cards[i]
                     IN  IF ~c.throws /\ ~IsNull(c.price) /\ ~IsNull(c.city)
                         THEN <<ExploreDeal(origin, Val(c.city), Val(c.price), t)>>
                                  \o Go(i + 1)
                         ELSE Go(i + 1)
         IN  Go(1)

\* What a Saturday run leaves behind when every route shows a deal: one deal
\* per route of the Saturday rotation, from 16% off upwards, best first.
SaturdayRouteCount ==
    Len(todaysOrigins(6)) * Len(todaysDestinations(6))
SaturdayDeal(n, t) ==
    LET origin == todaysOrigins(6)[((n - 1) \div Len(todaysDestinations(6))) + 1]
        dest == todaysDestinations(6)[((n - 1) % Len(todaysDestinations(6))) + 1]
        off == 16 + ((n - 1) \div 2)
    IN  ScrapedFlight(origin, dest,
                      TypicalPrice(dest) - ((off * TypicalPrice(dest)) \div 100), t)
FullFlightList ==
    [k \in 1..SaturdayRouteCount |->
        SaturdayDeal(SaturdayRouteCount + 1 - k, SevenDays - 1)]

\* A short previous output whose records are exactly seven days old, just
\* younger, and of this very tick.
AgedFlightList ==
    <<ScrapedFlight("SFO", "PAR", 400, 0), ScrapedFlight("JFK", "PAR", 600, 1),
      ScrapedFlight("JFK", "LON", 630, SevenDays)>>

InitFlightFiles ==
    {MissingFile, UnreadableFile, CorruptFile, NoDealsKeyFile,
     DealsFile(SevenDays - 1, FullFlightList),
     DealsFile(SevenDays, AgedFlightList)}

----------------------------------------------------------------------------
(* The flight scraper: flight-deals.js run from the command line *)

\* Nothing has run yet; the clock stands at the start of a Sunday.
ScraperIdle ==
    /\ day = 0 /\ oi = 0 /\ di = 0
    /\ allDeals = << >> /\ existingDeals = << >> /\ topDeals = << >>
    /\ visited = << >> /\ exitCode = Null
    /\ now = SevenDays /\ errors = 0 /\ priced = 0 /\ runs = 0

FlightsInit ==
    /\ RunAllUnused
    /\ FnUnused
    /\ ScraperIdle
    /\ PublisherUnused
    /\ pc = "f_idle"
    /\ flightsFile \in InitFlightFiles
    /\ hotelsFile = MissingFile

\* The process starts: chromium.launch and newPage throw (the run ends with
\* exit code 1), or the rotation of the day is read and the loops begin.
StartFlights ==
    /\ pc = "f_idle"
    /\ runs < MaxRuns
    /\ \E gap \in Gaps, launched \in BOOLEAN :
          /\ now' = now + gap
          /\ runs' = runs + 1
          /\ day' = DayOfWeek(now + gap)
          /\ allDeals' = << >>
          /\ existingDeals' = << >>
          /\ topDeals' = << >>
          /\ visited' = << >>
          /\ IF launched
             THEN pc' = "f_routes" /\ oi' = 1 /\ di' = 1 /\ exitCode' = Null
             ELSE pc' = "f_idle" /\ oi' = 0 /\ di' = 0 /\ exitCode' = Some(1)
    /\ UNCHANGED <<allVars, pubVars, fnVars, errors, priced, diskVars>>

\* One pass of the inner loop: scrapeGoogleFlights for the current route,
\* concat, and on to the next route.
ScrapeRoute ==
    /\ pc = "f_routes"
    /\ LET origin == todaysOrigins(day)[oi]
           dest == todaysDestinations(day)[di]
       IN  \E page \in RunFlightPages(dest) :
              /\ page.throws => errors < MaxFail
              /\ page.elems # << >> => priced < MaxPriced
              /\ errors' = IF page.throws THEN errors + 1 ELSE errors
              /\ priced' = IF page.elems # << >> THEN priced + 1 ELSE priced
              /\ IF flightScrapeThrows(page)
                 THEN /\ pc' = "f_idle"
                      /\ exitCode' = Some(1)
                      /\ UNCHANGED <<allDeals, visited, oi, di>>
                 ELSE /\ allDeals' = allDeals
                                      \o scrapeGoogleFlights(page, origin, dest, now)
                      /\ visited' = Append(visited, <<origin, dest>>)
                      /\ exitCode' = exitCode
                      /\ IF di < Len(todaysDestinations(day))
                         THEN pc' = pc /\ oi' = oi /\ di' = di + 1
                         ELSE IF oi < Len(todaysOrigins(day))
                         THEN pc' = pc /\ oi' = oi + 1 /\ di' = 1
                         ELSE pc' = "f_explore" /\ oi' = 1 /\ di' = 0
    /\ UNCHANGED <<allVars, pubVars, fnVars, day, existingDeals, topDeals, now, runs, diskVars>>

\* One pass of the Explore loop over todaysOrigins.slice(0, 2).
ExploreOrigin ==
    /\ pc = "f_explore"
    /\ LET origin == exploreOrigins(day)[oi]
       IN  \E page \in RunExplorePages :
              /\ page.throws => errors < MaxFail
              /\ page.cards # << >> => priced < MaxPriced
              /\ errors' = IF page.throws THEN errors + 1 ELSE errors
              /\ priced' = IF page.cards # << >> THEN priced + 1 ELSE priced
              /\ IF flightScrapeThrows(page)
                 THEN /\ pc' = "f_idle"
                      /\ exitCode' = Some(1)
                      /\ UNCHANGED <<allDeals, visited, oi>>
                 ELSE /\ allDeals' = allDeals
                                      \o scrapeGoogleFlightsExplore(page, origin, now)
                      /\ visited' = Append(visited, <<origin, "explore">>)
                      /\ exitCode' = exitCode
                      /\ IF oi < Len(exploreOrigins(day))
                         THEN pc' = pc /\ oi' = oi + 1
                         ELSE pc' = "f_finish" /\ oi' = 0
    /\ UNCHANGED <<allVars, pubVars, fnVars, day, di, existingDeals, topDeals, now, runs, diskVars>>

\* After the loops: load the previous output, merge, deduplicate, sort, keep
\* the top 20, return.
FinishFlights ==
    /\ pc = "f_finish"
    /\ LET loaded == loadExistingDeals(flightsFile, now)
       IN  IF loaded.threw
           THEN /\ pc' = "f_idle"
                /\ exitCode' = Some(1)
                /\ UNCHANGED <<allDeals, existingDeals, topDeals>>
           ELSE /\ existingDeals' = loaded.deals
                /\ allDeals' = mergeDeals(allDeals, loaded.deals)
                /\ topDeals' = topDealsOf(sortByPercentOff(
                                   deduplicateFlightDeals(
                                       mergeDeals(allDeals, loaded.deals))))
                /\ pc' = "f_save"
                /\ exitCode' = exitCode
    /\ UNCHANGED <<allVars, pubVars, fnVars, day, oi, di, visited, envVars, diskVars>>

\* .then(deals => saveDeals(deals)): the file is written and the process exits
\* with 0, or the write throws and it exits with 1.
SaveFlights ==
    /\ pc = "f_save"
    /\ \E written \in BOOLEAN :
          IF written
          THEN flightsFile' = saveDeals(topDeals, now) /\ exitCode' = Some(0)
          ELSE flightsFile' = flightsFile /\ exitCode' = Some(1)
    /\ pc' = "f_idle"
    /\ UNCHANGED <<allVars, pubVars, fnVars, day, oi, di, allDeals, existingDeals, topDeals, visited,
                   envVars, hotelsFile>>

FlightsNext ==
    \/ StartFlights
    \/ ScrapeRoute
    \/ ExploreOrigin
    \/ FinishFlights
    \/ SaveFlights

SpecFlights == FlightsInit /\ [][FlightsNext]_vars

----------------------------------------------------------------------------
(* The hotel scraper: hotel-deals.js run from the command line *)

HotelCard(throws, price, usually, was, rating, name) ==
    [throws |-> throws, price |-> price, usually |-> usually, was |-> was,
     rating |-> rating, name |-> name]

\* The cards of the runs: one that throws, one at 25% off and one at 24% off
\* (rated 4.5, at $152 a night).
RunHotelCards ==
    {HotelCard(TRUE, Null, Null, Null, Null, Null),
     HotelCard(FALSE, Some(150), Some(200), Null, Null, Some("Ritz")),
     HotelCard(FALSE, Some(152), Some(200), Null, Some(45), Some("Ritz"))}

\* A card without a "Usually" or "was" price, rated 4.0, at $140 a night.
LuxuryCard == HotelCard(FALSE, Some(140), Null, Null, Some(40), Some("Plaza"))

\* A card rated 4.0 at $140 a night whose "Usually" price is the lower $100.
MarkedUpCard ==
    HotelCard(FALSE, Some(140), Some(100), Null, Some(40), Some("Plaza"))

HotelPage(throws, cards) == [throws |-> throws, cards |-> cards]
RunHotelPages ==
    {HotelPage(TRUE, << >>), HotelPage(FALSE, <<LuxuryCard>>),
     HotelPage(FALSE, <<MarkedUpCard>>)}
    \cup {HotelPage(FALSE, c) : c \in SeqsUpTo(RunHotelCards, MaxCards)}

\* hotelCards.slice(0, 15)
HotelCardLimit == 15

\* scrapeGoogleHotels(page, destination) at time t.
scrapeGoogleHotels(page, location, t) ==
    IF page.throws THEN << >>
    ELSE LET n == IF Len(page.cards) < HotelCardLimit THEN Len(page.cards)
                  ELSE HotelCardLimit
             RECURSIVE Go(_)
             Go(i) == IF i > n THEN << >>
                      ELSE scrapeHotelCard(page.cards[i], location, t) \o Go(i + 1)
         IN  Go(1)

\* A Kayak deal card: reading it throws, or the price and "N% off" match or not.
KayakCard(throws, price, discount) ==
    [throws |-> throws, price |-> price, discount |-> discount]
RunKayakCards ==
    {KayakCard(TRUE, Null, Null), KayakCard(FALSE, Some(99), Some(30)),
     KayakCard(FALSE, Some(99), Some(29))}
RunKayakPages ==
    {HotelPage(TRUE, << >>)}
    \cup {HotelPage(FALSE, c) : c \in SeqsUpTo(RunKayakCards, MaxCards)}

\* dealCards.slice(0, 10) and discount >= 30
KayakCardLimit == 10
KayakMinDiscount == 30

\* scrapeHotelDealPages(page) at time t.
scrapeHotelDealPages(page, t) ==
    IF page.throws THEN << >>
    ELSE LET n == IF Len(page.cards) < KayakCardLimit THEN Len(page.cards)
                  ELSE KayakCardLimit
             RECURSIVE Go(_)
             Go(i) ==
                IF i > n THEN << >>
                ELSE LET c == page.cards[i]
                     IN  IF ~c.throws /\ ~IsNull(c.price) /\ ~IsNull(c.discount)
                            /\ Val(c.discount) >= KayakMinDiscount
                         THEN <<KayakDeal(Val(c.price), Val(c.discount), t)>>
                                  \o Go(i + 1)
                         ELSE Go(i + 1)
         IN  Go(1)

\* The weekend test of scrapeHotelDeals.
IsWeekend(d) == d = 0 \/ d = 6

\* A previous output with one deal for each configured destination, from 25%
\* off upwards, best first.
FullHotelDeal(n, t) ==
    LET original == 200 + 10 * ((n - 1) \div 2)
    IN  HotelDeal("Ritz", hotelDestinations[n], 150, Some(original),
                  PercentOff(original, 150), Null, t)
FullHotelList ==
    [k \in 1..Len(hotelDestinations) |->
        FullHotelDeal(Len(hotelDestinations) + 1 - k, SevenDays - 1)]

\* A short previous output whose records are exactly seven days old, just
\* younger, and of this very tick.
AgedHotelList ==
    <<HotelDeal("Ritz", "Rome", 100, Some(200), 50, Null, 0),
      HotelDeal("Ritz", "Paris", 150, Some(200), 25, Null, 1),
      HotelDeal("Hotel in London", "London", 140, Null, 0, Some(40), SevenDays)>>

InitHotelFiles ==
    {MissingFile, UnreadableFile, CorruptFile, NoDealsKeyFile,
     DealsFile(SevenDays - 1, FullHotelList),
     DealsFile(SevenDays, AgedHotelList)}

HotelsInit ==
    /\ RunAllUnused
    /\ FnUnused
    /\ ScraperIdle
    /\ PublisherUnused
    /\ pc = "h_idle"
    /\ flightsFile = MissingFile
    /\ hotelsFile \in InitHotelFiles

StartHotels ==
    /\ pc = "h_idle"
    /\ runs < MaxRuns
    /\ \E gap \in Gaps, launched \in BOOLEAN :
          /\ now' = now + gap
          /\ runs' = runs + 1
          /\ day' = DayOfWeek(now + gap)
          /\ allDeals' = << >>
          /\ existingDeals' = << >>
          /\ topDeals' = << >>
          /\ visited' = << >>
          /\ di' = 0
          /\ IF launched
             THEN pc' = "h_dests" /\ oi' = 1 /\ exitCode' = Null
             ELSE pc' = "h_idle" /\ oi' = 0 /\ exitCode' = Some(1)
    /\ UNCHANGED <<allVars, pubVars, fnVars, errors, priced, diskVars>>

\* One pass of the loop over todaysDestinations.
ScrapeDestination ==
    /\ pc = "h_dests"
    /\ LET dest == todaysHotelDestinations(day)[oi]
       IN  \E page \in RunHotelPages :
              /\ page.throws => errors < MaxFail
              /\ page.cards # << >> => priced < MaxPriced
              /\ errors' = IF page.throws THEN errors + 1 ELSE errors
              /\ priced' = IF page.cards # << >> THEN priced + 1 ELSE priced
              /\ IF hotelScrapeThrows(page)
                 THEN /\ pc' = "h_idle"
                      /\ exitCode' = Some(1)
                      /\ UNCHANGED <<allDeals, visited, oi>>
                 ELSE /\ allDeals' = allDeals \o scrapeGoogleHotels(page, dest, now)
                      /\ visited' = Append(visited, <<dest>>)
                      /\ exitCode' = exitCode
                      /\ IF oi < Len(todaysHotelDestinations(day))
                         THEN pc' = pc /\ oi' = oi + 1
                         ELSE IF IsWeekend(day)
                         THEN pc' = "h_kayak" /\ oi' = 0
                         ELSE pc' = "h_finish" /\ oi' = 0
    /\ UNCHANGED <<allVars, pubVars, fnVars, day, di, existingDeals, topDeals, now, runs, diskVars>>

\* The deal aggregator page, on weekends.
ScrapeKayak ==
    /\ pc = "h_kayak"
    /\ \E page \in RunKayakPages :
          /\ page.throws => errors < MaxFail
          /\ page.cards # << >> => priced < MaxPriced
          /\ errors' = IF page.throws THEN errors + 1 ELSE errors
          /\ priced' = IF page.cards # << >> THEN priced + 1 ELSE priced
          /\ IF hotelScrapeThrows(page)
             THEN /\ pc' = "h_idle"
                  /\ exitCode' = Some(1)
                  /\ UNCHANGED <<allDeals, visited>>
             ELSE /\ allDeals' = allDeals \o scrapeHotelDealPages(page, now)
                  /\ visited' = Append(visited, <<"kayak">>)
                  /\ exitCode' = exitCode
                  /\ pc' = "h_finish"
    /\ UNCHANGED <<allVars, pubVars, fnVars, day, oi, di, existingDeals, topDeals, now, runs,
                   diskVars>>

FinishHotels ==
    /\ pc = "h_finish"
    /\ LET loaded == loadExistingDeals(hotelsFile, now)
       IN  IF loaded.threw
           THEN /\ pc' = "h_idle"
                /\ exitCode' = Some(1)
                /\ UNCHANGED <<allDeals, existingDeals, topDeals>>
           ELSE /\ existingDeals' = loaded.deals
                /\ allDeals' = mergeDeals(allDeals, loaded.deals)
                /\ topDeals' = topDealsOf(sortByPercentOff(
                                   deduplicateHotelDeals(
                                       mergeDeals(allDeals, loaded.deals))))
                /\ pc' = "h_save"
                /\ exitCode' = exitCode
    /\ UNCHANGED <<allVars, pubVars, fnVars, day, oi, di, visited, envVars, diskVars>>

SaveHotels ==
    /\ pc = "h_save"
    /\ \E written \in BOOLEAN :
          IF written
          THEN hotelsFile' = saveDeals(topDeals, now) /\ exitCode' = Some(0)
          ELSE hotelsFile' = hotelsFile /\ exitCode' = Some(1)
    /\ pc' = "h_idle"
    /\ UNCHANGED <<allVars, pubVars, fnVars, day, oi, di, allDeals, existingDeals, topDeals, visited,
                   envVars, flightsFile>>

HotelsNext ==
    \/ StartHotels
    \/ ScrapeDestination
    \/ ScrapeKayak
    \/ FinishHotels
    \/ SaveHotels

SpecHotels == HotelsInit /\ [][HotelsNext]_vars

----------------------------------------------------------------------------
(* Either scraper, run after run *)

\* One script is started again and again (by cron), over the file that its
\* earlier runs left.
ScrapersInit == FlightsInit \/ HotelsInit

ScrapersNext == FlightsNext \/ HotelsNext

SpecScrapers == ScrapersInit /\ [][ScrapersNext]_vars

----------------------------------------------------------------------------
(* Publishing: two runs of post-generator.js --publish against one site *)

\* Requests that fail (the fetch rejects, or the response is not ok).
MaxHttpFail == 1

\* The days on which the runs may take place.
PublishDays == {0, 1}

\* A post as the site stores it: the id it gave and the fields of the body.
WpPost(id, body) ==
    [id |-> id, title |-> body.title, slug |-> body.slug,
     content |-> body.content, excerpt |-> body.excerpt,
     status |-> body.status, categories |-> body.categories,
     tags |-> body.tags]

\* The site before the runs: empty, holding the flight post of day 0, or
\* holding two posts with that slug.
OldFlightPost(id) ==
    WpPost(id, [title |-> <<"Yesterday's Flight Deals", 0>>,
                slug |-> Some(flightSlug(0)), content |-> "old",
                excerpt |-> "old", status |-> "draft",
                categories |-> <<1>>, tags |-> <<7>>])
InitSites ==
    {<< >>, <<OldFlightPost(1)>>, <<OldFlightPost(2), OldFlightPost(1)>>}

\* flights.json and hotels.json as the scrapers left them.
PublishFlightFiles ==
    {MissingFile, CorruptFile,
     DealsFile(0, <<FlightDeal("JFK", "PAR", 500, 650, 23, 0)>>)}
PublishHotelFiles ==
    {UnreadableFile, DealsFile(0, << >>),
     DealsFile(0, <<KayakDeal(99, 30, 0)>>)}

\* The environments the runs may be started in.
CredentialSets ==
    {Credentials(u, a) : u \in {Null, Some("editor")},
                         a \in {Null, Some(""), Some("abcd efgh")}}

PublishInit ==
    /\ RunAllUnused
    /\ FnUnused
    /\ ScraperUnused
    /\ creds \in CredentialSets
    /\ wp \in InitSites
    /\ http = << >>
    /\ pub = [p \in Procs |-> NoRun]
    /\ flightsFile \in PublishFlightFiles
    /\ hotelsFile \in PublishHotelFiles

\* A request as the site sees it: target is the slug of a lookup or create,
\* and the id of an update.
Request(p, type, method, target) ==
    [proc |-> p, type |-> type, method |-> method, target |-> target]

DealsOfType(run, type) ==
    IF type = "flights" THEN run.flightDeals ELSE run.hotelDeals
PostOfType(run, type) ==
    IF type = "flights" THEN generateFlightDealsPost(run.flightDeals, run.today)
    ELSE generateHotelDealsPost(run.hotelDeals, run.today)
CategoryOfType(type) ==
    IF type = "flights" THEN flightCategoryId ELSE hotelCategoryId

\* What follows the publish of a post type in generateAndPublish.
AfterType(type) == IF type = "flights" THEN "hotels" ELSE "done"

\* GET /wp-json/wp/v2/posts?slug=...&status=any on the site.
PostsWithSlug(slug) == SelectSeq(wp, LAMBDA post : post.slug = Some(slug))

\* The site after PUT /posts/id with the body: the fields the body names
\* are replaced, the others stay.
SiteAfterUpdate(id, body) ==
    [i \in 1..Len(wp) |->
        IF wp[i].id = id
        THEN [f \in DOMAIN wp[i] |->
                 IF f \in DOMAIN body THEN body[f] ELSE wp[i][f]]
        ELSE wp[i]]

\* The post the site makes of the body of POST /posts.
CreatedPost(body) == WpPost(Len(wp) + 1, body)

\* The run ends the publish of the current type with an error thrown inside
\* publishToWordPress.
PublishThrew(p) ==
    IF publishErrorEscapes
    THEN pub' = [pub EXCEPT ![p].pc = "crashed",
                            ![p].threw[pub[p].type] = TRUE]
    ELSE pub' = [pub EXCEPT ![p].pc = AfterType(pub[p].type),
                            ![p].threw[pub[p].type] = TRUE]

\* generateAndPublish starts: both files are loaded, results is
\* { flights: null, hotels: null }.
StartPublish(p) ==
    /\ pub[p].pc = "idle"
    /\ \E today \in PublishDays :
          LET loaded == loadDealsForPublish(flightsFile, hotelsFile)
          IN  IF loaded.threw
              THEN pub' = [pub EXCEPT ![p].pc = "crashed"]
              ELSE pub' = [pub EXCEPT ![p].pc = "flights",
                                      ![p].today = today,
                                      ![p].flightDeals = loaded.flightDeals,
                                      ![p].hotelDeals = loaded.hotelDeals]
    /\ UNCHANGED <<allVars, fnVars, runVars, envVars, diskVars, creds, wp, http>>

\* if (deals.length > 0) { ... publishToWordPress(...) up to its first await:
\* without credentials it returns null.
BeginPublish(p) ==
    /\ pub[p].pc \in Types
    /\ LET type == pub[p].pc
       IN  IF ~hasDeals(DealsOfType(pub[p], type))
           THEN pub' = [pub EXCEPT ![p].pc = AfterType(type)]
           ELSE IF missingCredentials(creds)
           THEN pub' = [pub EXCEPT ![p].pc = AfterType(type),
                                   ![p].attempted = @ \cup {type}]
           ELSE pub' = [pub EXCEPT ![p].pc = "lookup",
                                   ![p].type = type,
                                   ![p].attempted = @ \cup {type}]
    /\ UNCHANGED <<allVars, fnVars, runVars, envVars, diskVars, creds, wp, http>>

\* The slug lookup and existingCheck.json(): the request fails, or the site
\* answers with the posts of that slug or with an error object.
Lookup(p) ==
    /\ pub[p].pc = "lookup"
    /\ LET type == pub[p].type
           slug == PostOfType(pub[p], type).slug
       IN  /\ http' = Append(http, Request(p, type, "GET", slug))
           /\ \E outcome \in {"rejects", "posts", "error"} :
                 /\ outcome # "posts" => errors < MaxHttpFail
                 /\ errors' = IF outcome # "posts" THEN errors + 1 ELSE errors
                 /\ IF outcome = "rejects" THEN PublishThrew(p)
                    ELSE pub' = [pub EXCEPT
                                    ![p].pc = "write",
                                    ![p].found[type] =
                                        IF outcome = "posts"
                                        THEN Some(PostList(PostsWithSlug(slug)))
                                        ELSE Some(ErrorBody)]
    /\ UNCHANGED <<allVars, fnVars, runVars, now, priced, runs, diskVars, creds, wp>>

\* The update branch: PUT to existingPosts[0].id.  Reading the id of a post
\* that is not there throws before any request is sent.
Update(p) ==
    /\ pub[p].pc = "write"
    /\ postExists(Val(pub[p].found[pub[p].type]))
    /\ LET type == pub[p].type
           existingPosts == Val(pub[p].found[type])
           post == PostOfType(pub[p], type)
       IN  IF existingPosts.items = << >>
           THEN PublishThrew(p) /\ UNCHANGED <<http, wp, errors>>
           ELSE LET id == existingPosts.items[1].id
                IN  /\ http' = Append(http, Request(p, type, "PUT", id))
                    /\ \E ok \in BOOLEAN :
                          /\ ~ok => errors < MaxHttpFail
                          /\ errors' = IF ok THEN errors ELSE errors + 1
                          /\ IF ok
                             THEN /\ wp' = SiteAfterUpdate(id, updateData(post))
                                  /\ pub' = [pub EXCEPT
                                        ![p].pc = AfterType(type),
                                        ![p].results[type] =
                                            Some([id |-> id,
                                                  slug |-> Some(post.slug)])]
                             ELSE wp' = wp /\ PublishThrew(p)
    /\ UNCHANGED <<allVars, fnVars, runVars, now, priced, runs, diskVars, creds>>

\* The create branch: POST postData.
Create(p) ==
    /\ pub[p].pc = "write"
    /\ ~postExists(Val(pub[p].found[pub[p].type]))
    /\ LET type == pub[p].type
           post == PostOfType(pub[p], type)
           body == postData(post, CategoryOfType(type))
       IN  /\ http' = Append(http, Request(p, type, "POST", post.slug))
           /\ \E ok \in BOOLEAN :
                 /\ ~ok => errors < MaxHttpFail
                 /\ errors' = IF ok THEN errors ELSE errors + 1
                 /\ IF ok
                    THEN /\ wp' = <<CreatedPost(body)>> \o wp
                         /\ pub' = [pub EXCEPT
                               ![p].pc = AfterType(type),
                               ![p].results[type] =
                                   Some([id |-> CreatedPost(body).id,
                                         slug |-> body.slug])]
                    ELSE wp' = wp /\ PublishThrew(p)
    /\ UNCHANGED <<allVars, fnVars, runVars, now, priced, runs, diskVars, creds>>

PublishNext ==
    \E p \in Procs :
        \/ StartPublish(p)
        \/ BeginPublish(p)
        \/ Lookup(p)
        \/ Update(p)
        \/ Create(p)

SpecPublish == PublishInit /\ [][PublishNext]_vars

----------------------------------------------------------------------------
(* run-all.js: runAllScrapers runs both scrapers and writes deals.json *)

\* try { flightDeals = await scrapeFlightDeals(); await saveFlightDeals(...) }
\* catch (err) { console.error(...) }, and the same for hotels: does the error
\* leave runAllScrapers?
scraperErrorEscapesUncaught == TRUE
scraperErrorEscapes == FALSE

\* scrapeFlightDeals() on day d at time t when the first route of the day
\* shows the page and no other route or Explore card shows a price.
scrapeFlightDealsOf(page, d, file, t) ==
    topDealsOf(sortByPercentOff(deduplicateFlightDeals(
        mergeDeals(scrapeGoogleFlights(page, todaysOrigins(d)[1],
                                       todaysDestinations(d)[1], t),
                   loadExistingDeals(file, t).deals))))

\* scrapeHotelDeals() on day d at time t when the first destination of the
\* day shows the page and no other destination shows a card; the aggregator
\* page is read on weekends only.
scrapeHotelDealsOf(page, kayakPage, d, file, t) ==
    topDealsOf(sortByPercentOff(deduplicateHotelDeals(
        mergeDeals(scrapeGoogleHotels(page, todaysHotelDestinations(d)[1], t)
                       \o (IF IsWeekend(d) THEN scrapeHotelDealPages(kayakPage, t)
                           ELSE << >>),
                   loadExistingDeals(file, t).deals))))

\* flightDeals[0] || null
FirstOrNull(deals) == IF deals = << >> THEN Null ELSE Some(deals[1])

\* The object runAllScrapers writes to deals.json at time t.
combinedOutputSwapped(t, dayOfWeek, flightDeals, hotelDeals) ==
    [status |-> "ok", generated |-> t, rotationDay |-> dayOfWeek,
     summary |-> [totalFlightDeals |-> Len(flightDeals),
                  totalHotelDeals |-> Len(hotelDeals),
                  bestFlightDeal |-> FirstOrNull(flightDeals),
                  bestHotelDeal |-> FirstOrNull(hotelDeals)],
     flights |-> hotelDeals, hotels |-> flightDeals]
combinedOutputDayAtWrite(t, dayOfWeek, flightDeals, hotelDeals) ==
    [status |-> "ok", generated |-> t, rotationDay |-> DayOfWeek(t),
     summary |-> [totalFlightDeals |-> Len(flightDeals),
                  totalHotelDeals |-> Len(hotelDeals),
                  bestFlightDeal |-> FirstOrNull(flightDeals),
                  bestHotelDeal |-> FirstOrNull(hotelDeals)],
     flights |-> flightDeals, hotels |-> hotelDeals]
combinedOutput(t, dayOfWeek, flightDeals, hotelDeals) ==
    [status |-> "ok", generated |-> t, rotationDay |-> dayOfWeek,
     summary |-> [totalFlightDeals |-> Len(flightDeals),
                  totalHotelDeals |-> Len(hotelDeals),
                  bestFlightDeal |-> FirstOrNull(flightDeals),
                  bestHotelDeal |-> FirstOrNull(hotelDeals)],
     flights |-> flightDeals, hotels |-> hotelDeals]

\* The run starts with the first or with the last tick of a Sunday; while a
\* scraper is awaited the clock stands or moves on by one tick.
RunAllStarts == {SevenDays, SevenDays + TicksPerDay - 1}
Elapsed == {0, 1}

\* The pages of a run: one card each.
RunAllHotelPages ==
    {HotelPage(TRUE, << >>)} \cup {HotelPage(FALSE, <<c>>) : c \in RunHotelCards}
RunAllKayakPages ==
    {HotelPage(TRUE, << >>)} \cup {HotelPage(FALSE, <<c>>) : c \in RunKayakCards}

RunAllInit ==
    /\ FnUnused
    /\ PublisherUnused
    /\ pc = "r_idle" /\ day = 0 /\ oi = 0 /\ di = 0
    /\ allDeals = << >> /\ existingDeals = << >> /\ topDeals = << >>
    /\ visited = << >> /\ exitCode = Null
    /\ errors = 0 /\ priced = 0 /\ runs = 0
    /\ now \in RunAllStarts
    /\ runAll = NoRunAll
    /\ flightsFile \in {MissingFile, DealsFile(SevenDays, AgedFlightList)}
    /\ hotelsFile \in {MissingFile, DealsFile(SevenDays, AgedHotelList)}
    /\ dealsFile = MissingFile

\* The run ends with the error that left a try block.
RunAllCrashed(event) ==
    /\ pc' = "r_done"
    /\ exitCode' = Some(1)
    /\ runAll' = [runAll EXCEPT !.log = Append(@, event)]

\* scrapeHotelDeals is called: it reads the day for its rotation and for the
\* weekend check before its first await.
HotelsStarted(r, event, t) ==
    [r EXCEPT !.hotelDay = Some(DayOfWeek(t)),
              !.log = @ \o <<event, "hotels started">>]

\* runAllScrapers up to the first await: dayOfWeek is read, flightDeals is [],
\* scrapeFlightDeals is called and reads the day for its rotation.
StartRunAll ==
    /\ pc = "r_idle"
    /\ runAll' = [runAll EXCEPT !.dayOfWeek = DayOfWeek(now),
                                !.flightDay = Some(DayOfWeek(now)),
                                !.log = <<"flights started">>]
    /\ pc' = "r_flights"
    /\ UNCHANGED <<pubVars, fnVars, day, oi, di, allDeals, existingDeals,
                   topDeals, visited, exitCode, envVars, diskVars, dealsFile>>

\* scrapeFlightDeals settles: it returns its list, or it throws (the browser
\* does not start) and the catch block logs the error.
FlightsScraped ==
    /\ pc = "r_flights"
    /\ \E elapsed \in Elapsed, launched \in BOOLEAN,
          page \in RunFlightPages(todaysDestinations(Val(runAll.flightDay))[1]) :
          /\ now' = now + elapsed
          /\ IF launched
             THEN /\ runAll' =
                        [runAll EXCEPT
                            !.flightDeals =
                                scrapeFlightDealsOf(page, Val(runAll.flightDay),
                                                    flightsFile, now + elapsed),
                            !.log = Append(@, "flights returned")]
                  /\ pc' = "r_fsave"
                  /\ exitCode' = exitCode
             ELSE IF scraperErrorEscapes
             THEN RunAllCrashed("flights threw")
             ELSE /\ runAll' = HotelsStarted(runAll, "flights threw", now + elapsed)
                  /\ pc' = "r_hotels"
                  /\ exitCode' = exitCode
    /\ UNCHANGED <<pubVars, fnVars, day, oi, di, allDeals, existingDeals,
                   topDeals, visited, errors, priced, runs, diskVars, dealsFile>>

\* saveFlightDeals(flightDeals): flights.json is written, or the write throws
\* and the catch block logs the error; then scrapeHotelDeals is called.
FlightsSaved ==
    /\ pc = "r_fsave"
    /\ \E written \in BOOLEAN :
          IF written
          THEN /\ flightsFile' = saveDeals(runAll.flightDeals, now)
               /\ runAll' = HotelsStarted(runAll, "flights saved", now)
               /\ pc' = "r_hotels"
               /\ exitCode' = exitCode
          ELSE /\ flightsFile' = flightsFile
               /\ IF scraperErrorEscapes
                  THEN RunAllCrashed("flights save threw")
                  ELSE /\ runAll' = HotelsStarted(runAll, "flights save threw", now)
                       /\ pc' = "r_hotels"
                       /\ exitCode' = exitCode
    /\ UNCHANGED <<pubVars, fnVars, day, oi, di, allDeals, existingDeals,
                   topDeals, visited, envVars, hotelsFile, dealsFile>>

\* scrapeHotelDeals settles.
HotelsScraped ==
    /\ pc = "r_hotels"
    /\ \E elapsed \in Elapsed, launched \in BOOLEAN,
          page \in RunAllHotelPages, kayakPage \in RunAllKayakPages :
          /\ now' = now + elapsed
          /\ IF launched
             THEN /\ runAll' =
                        [runAll EXCEPT
                            !.hotelDeals =
                                scrapeHotelDealsOf(page, kayakPage,
                                                   Val(runAll.hotelDay),
                                                   hotelsFile, now + elapsed),
                            !.aggregator = IsWeekend(Val(runAll.hotelDay)),
                            !.log = Append(@, "hotels returned")]
                  /\ pc' = "r_hsave"
                  /\ exitCode' = exitCode
             ELSE IF scraperErrorEscapes
             THEN RunAllCrashed("hotels threw")
             ELSE /\ runAll' = [runAll EXCEPT !.log = Append(@, "hotels threw")]
                  /\ pc' = "r_combine"
                  /\ exitCode' = exitCode
    /\ UNCHANGED <<pubVars, fnVars, day, oi, di, allDeals, existingDeals,
                   topDeals, visited, errors, priced, runs, diskVars, dealsFile>>

\* saveHotelDeals(hotelDeals).
HotelsSaved ==
    /\ pc = "r_hsave"
    /\ \E written \in BOOLEAN :
          IF written
          THEN /\ hotelsFile' = saveDeals(runAll.hotelDeals, now)
               /\ runAll' = [runAll EXCEPT !.log = Append(@, "hotels saved")]
               /\ pc' = "r_combine"
               /\ exitCode' = exitCode
          ELSE /\ hotelsFile' = hotelsFile
               /\ IF scraperErrorEscapes
                  THEN RunAllCrashed("hotels save threw")
                  ELSE /\ runAll' = [runAll EXCEPT
                                        !.log = Append(@, "hotels save threw")]
                       /\ pc' = "r_combine"
                       /\ exitCode' = exitCode
    /\ UNCHANGED <<pubVars, fnVars, day, oi, di, allDeals, existingDeals,
                   topDeals, visited, envVars, flightsFile, dealsFile>>

\* The combined object is built and written to deals.json; the process exits
\* with 0, or with 1 when the write throws.
WriteCombined ==
    /\ pc = "r_combine"
    /\ \E written \in BOOLEAN :
          IF written
          THEN /\ dealsFile' = combinedOutput(now, runAll.dayOfWeek,
                                              runAll.flightDeals,
                                              runAll.hotelDeals)
               /\ runAll' = [runAll EXCEPT !.log = Append(@, "combined written")]
               /\ exitCode' = Some(0)
          ELSE /\ dealsFile' = dealsFile
               /\ runAll' = [runAll EXCEPT !.log = Append(@, "combined threw")]
               /\ exitCode' = Some(1)
    /\ pc' = "r_done"
    /\ UNCHANGED <<pubVars, fnVars, day, oi, di, allDeals, existingDeals,
                   topDeals, visited, envVars, diskVars>>

RunAllNext ==
    \/ StartRunAll
    \/ FlightsScraped
    \/ FlightsSaved
    \/ HotelsScraped
    \/ HotelsSaved
    \/ WriteCombined

SpecRunAll == RunAllInit /\ [][RunAllNext]_vars

----------------------------------------------------------------------------
(* Properties of the filters and of deduplication (SpecFn) *)

\* num/den rounded to the nearest integer, halves up: the arithmetic meaning of
\* "rounded", stated without the floating point of PercentOff.
RoundHalfUp(num, den) == (2 * num + den) \div (2 * den)

\* C1.  scrapeGoogleFlights returns at most one deal, and returns one exactly
\* when the page did not throw, a non-zero lowest price was extracted and the
\* rounded percentage off the destination's typical price is strictly above 15:
\* at 15 there is no deal, at 16 there is exactly one, carrying that price and
\* percentage.
FlightFilterThreshold ==
    (call.fn = "scrapeGoogleFlights" /\ ~IsNull(ret)) =>
        LET deals == Val(ret)
            lowest == LowestPrice(call.page.elems)
            extracted == ~call.page.throws /\ ~IsNull(lowest) /\ Val(lowest) # 0
            typical == typicalPrices[call.dest]
            pct == RoundHalfUp(100 * (typical - Val(lowest)), typical)
        IN  /\ Len(deals) <= 1
            /\ (Len(deals) = 1) <=> (extracted /\ pct > 15)
            /\ (extracted /\ pct = 15) => deals = << >>
            /\ (extracted /\ pct = 16) =>
                    (Len(deals) = 1 /\ deals[1].percentOff = 16)
            /\ Len(deals) = 1 =>
                    /\ deals[1].percentOff > 15
                    /\ deals[1].price = Val(lowest)
                    /\ deals[1].origin = call.origin
                    /\ deals[1].destination = call.dest

\* A route at exactly 16% off has produced its one deal.
FlightFilterAtSixteen ==
    /\ call.fn = "scrapeGoogleFlights" /\ ~IsNull(ret)
    /\ Len(Val(ret)) = 1
    /\ Val(ret)[1].percentOff = 16

FlightKeyParts(d) == <<Str(d, "origin"), Str(d, "destination"), Str(d, "price")>>
HotelKeyParts(d) ==
    <<Str(d, "hotelName"), Str(d, "location"), Str(d, "pricePerNight")>>
KeyParts(d) == IF "pricePerNight" \in DOMAIN d THEN HotelKeyParts(d)
               ELSE FlightKeyParts(d)

\* out keeps of in exactly the first record of every key, in the order of in.
IsFirstOccurrences(in, out) ==
    LET first(k) ==
            CHOOSE i \in 1..Len(in) :
                /\ KeyParts(in[i]) = KeyParts(out[k])
                /\ \A j \in 1..(i - 1) : KeyParts(in[j]) # KeyParts(out[k])
    IN  /\ \A k, l \in 1..Len(out) :
               k # l => KeyParts(out[k]) # KeyParts(out[l])
        /\ {KeyParts(in[i]) : i \in 1..Len(in)}
               = {KeyParts(out[k]) : k \in 1..Len(out)}
        /\ \A k \in 1..Len(out) : out[k] = in[first(k)]
        /\ \A k \in 1..(Len(out) - 1) : first(k) < first(k + 1)

\* C3.  deduplicateDeals (flights and hotels) returns the subsequence of its
\* input made of the first record of each composite key: no key twice, every
\* key of the input present, input order kept.
DedupKeepsFirstOfEachKey ==
    (call.fn \in {"deduplicateFlightDeals", "deduplicateHotelDeals"}
        /\ ~IsNull(ret)) => IsFirstOccurrences(call.deals, Val(ret))

\* Deduplication has dropped a later record whose key an earlier, different
\* record carried.
DedupDroppedLaterDuplicate ==
    /\ call.fn \in {"deduplicateFlightDeals", "deduplicateHotelDeals"}
    /\ ~IsNull(ret)
    /\ Len(Val(ret)) < Len(call.deals)
    /\ \E i, j \in 1..Len(call.deals) :
          /\ i < j
          /\ KeyParts(call.deals[i]) = KeyParts(call.deals[j])
          /\ call.deals[i] # call.deals[j]

----------------------------------------------------------------------------
(* Properties of a scraper run (SpecScrapers) *)

\* The run has returned its list (the scrape function's return value is in
\* topDeals, saveDeals has not run yet).
Returned == pc \in {"f_save", "h_save"}

NonIncreasing(deals) ==
    \A i \in 1..(Len(deals) - 1) : PctOrZero(deals[i]) >= PctOrZero(deals[i + 1])

\* C4.  The list scrapeFlightDeals or scrapeHotelDeals returns is non-increasing
\* in percent-off from its first to its last element, a record without
\* percentOff counting as 0, whatever was scraped and whatever the previous
\* output held.
ReturnedListIsNonIncreasing == Returned => NonIncreasing(topDeals)

\* A returned list of fresh and previously saved deals whose merged input was
\* out of order.
ReturnedListWasReordered ==
    /\ Returned
    /\ existingDeals # << >>
    /\ Len(allDeals) > Len(existingDeals)
    /\ Len(topDeals) >= 3
    /\ \E i, j \in 1..Len(allDeals) :
          i < j /\ PctOrZero(allDeals[i]) < PctOrZero(allDeals[j])
    /\ \E i \in 1..Len(topDeals) : "percentOff" \notin DOMAIN topDeals[i]

Range(seq) == {seq[i] : i \in 1..Len(seq)}

\* The deduplicated merged list of the run that has returned.
UniqueDeals ==
    IF pc = "f_save" THEN deduplicateFlightDeals(allDeals)
    ELSE deduplicateHotelDeals(allDeals)

\* C5.  The returned list has at most 20 elements: all unique merged deals if
\* there are at most 20, and otherwise 20 of them such that no unique deal
\* left out has a strictly higher percent-off than one that was kept; no deal
\* appears twice.
ReturnedListIsTopTwenty ==
    Returned =>
        /\ Len(topDeals) <= 20
        /\ Len(topDeals) = IF Len(UniqueDeals) < 20 THEN Len(UniqueDeals) ELSE 20
        /\ Range(topDeals) \subseteq Range(UniqueDeals)
        /\ Cardinality(Range(topDeals)) = Len(topDeals)
        /\ \A d \in Range(UniqueDeals) \ Range(topDeals) :
              \A k \in Range(topDeals) : PctOrZero(d) <= PctOrZero(k)

\* More than 20 unique merged deals, and a fresh deal that pushed a saved one
\* out of the list.
ReturnedListWasCut ==
    /\ Returned
    /\ Len(UniqueDeals) > 20
    /\ Len(topDeals) = 20
    /\ Range(existingDeals) \ Range(topDeals) # {}
    /\ Range(topDeals) \ Range(existingDeals) # {}

\* The routes of the day's rotation, in the order of the two loops.
RoutesOf(d) ==
    [k \in 1..(Len(todaysOrigins(d)) * Len(todaysDestinations(d))) |->
        <<todaysOrigins(d)[((k - 1) \div Len(todaysDestinations(d))) + 1],
          todaysDestinations(d)[((k - 1) % Len(todaysDestinations(d))) + 1]>>]
DestinationsOf(d) ==
    [k \in 1..Len(todaysHotelDestinations(d)) |-> <<todaysHotelDestinations(d)[k]>>]

IsPrefix(a, b) == Len(a) <= Len(b) /\ SubSeq(b, 1, Len(a)) = a

\* A step in which scrapeGoogleFlights or scrapeGoogleHotels hit an error.
ItemScrapeFailed == pc \in {"f_routes", "h_dests"} /\ errors' = errors + 1

\* C9.  A step in which scraping one route or destination fails adds nothing
\* to the collected deals, keeps every deal collected so far, and moves the
\* loop on to the next item; and when the loop is over it has visited every
\* route or destination of the day's rotation, in order.
ItemFailureIsSkipped ==
    /\ [][ItemScrapeFailed =>
            /\ allDeals' = allDeals
            /\ Len(visited') = Len(visited) + 1
            /\ pc' \in {"f_routes", "f_explore", "h_dests", "h_kayak", "h_finish"}
            /\ exitCode' = exitCode]_vars
    /\ [](pc \in {"f_explore", "f_finish", "f_save"} => IsPrefix(RoutesOf(day), visited))
    /\ [](pc \in {"h_kayak", "h_finish", "h_save"} => IsPrefix(DestinationsOf(day), visited))

\* The first route of the day gave a deal, the second failed, and the loop is
\* at the third route with the deal still collected.
FailedItemAfterDeal ==
    /\ pc = "f_routes"
    /\ runs = 1 /\ errors = 1
    /\ Len(visited) = 2
    /\ Len(allDeals) = 1
    /\ <<allDeals[1].origin, allDeals[1].destination>> = visited[1]

----------------------------------------------------------------------------
(* Properties of reading a previous output file (SpecFn) *)

\* The deal cards of a post's content, in order.
CardBlocks(content) == SelectSeq(content, LAMBDA b : b.kind = "card")

\* The file is missing, cannot be read, or cannot be parsed.
Unusable(file) == file.status \in {"missing", "unreadable", "corrupt"}

\* C10.  When the previous output file is missing, unreadable or unparsable,
\* loadExistingDeals returns the empty list without throwing, and generatePosts
\* and the head of generateAndPublish go on without throwing, with the empty
\* list as that type's deals (generatePosts builds that type's post from it).
UnusableFileGivesEmptyList ==
    ~IsNull(ret) =>
        /\ (call.fn = "loadExistingDeals" /\ Unusable(call.file)) =>
              Val(ret) = [threw |-> FALSE, deals |-> << >>]
        /\ call.fn \in {"generatePosts", "loadDealsForPublish"} =>
              /\ ~Val(ret).threw
              /\ Unusable(call.flights) => Val(ret).flightDeals = << >>
              /\ Unusable(call.hotels) => Val(ret).hotelDeals = << >>
        /\ call.fn = "generatePosts" =>
              /\ Unusable(call.flights) =>
                    /\ CardBlocks(Val(ret).flightPost.content) = << >>
                    /\ Val(ret).flightPost.excerpt.count = 0
              /\ Unusable(call.hotels) =>
                    /\ CardBlocks(Val(ret).hotelPost.content) = << >>
                    /\ Val(ret).hotelPost.excerpt.count = 0

\* generatePosts has returned its two posts with flights.json corrupt and
\* hotels.json holding a deal.
PostsGeneratedFromCorruptFile ==
    /\ call.fn = "generatePosts" /\ ~IsNull(ret)
    /\ call.flights = CorruptFile
    /\ Val(ret).flightDeals = << >>
    /\ Val(ret).hotelDeals # << >>

----------------------------------------------------------------------------
(* Properties of publishing (SpecPublish) *)

\* The requests run p has sent for the post of the given type, in order.
RequestsOf(p, type) ==
    SelectSeq(http, LAMBDA r : r.proc = p /\ r.type = type)

\* The slug of the post of the given type in run p.
SlugOf(p, type) == PostOfType(pub[p], type).slug

\* Run p is through with the post of the given type.
PublishOver(p, type) ==
    \/ pub[p].pc = "done"
    \/ type = "flights" /\ pub[p].pc = "hotels"
    \/ type = "flights" /\ pub[p].pc \in {"lookup", "write"}
          /\ pub[p].type = "hotels"

\* C6.  With credentials, the requests of one publishToWordPress call are: the
\* lookup by the post's slug first; then, once the lookup has been answered,
\* exactly one write: an update (PUT) to the id of the first post returned if
\* at least one post was returned, and otherwise a create (POST) of the slug.
\* No write is sent before the lookup.
PublishLooksUpThenWritesOnce ==
    \A p \in Procs, type \in Types :
        LET sent == RequestsOf(p, type)
            existingPosts == pub[p].found[type]
        IN  /\ Len(sent) <= 2
            /\ Len(sent) >= 1 =>
                  sent[1] = Request(p, type, "GET", SlugOf(p, type))
            /\ Len(sent) = 2 =>
                  /\ ~IsNull(existingPosts)
                  /\ IF ~IsNull(Val(existingPosts).length)
                        /\ Len(Val(existingPosts).items) >= 1
                     THEN sent[2] = Request(p, type, "PUT",
                                            Val(existingPosts).items[1].id)
                     ELSE sent[2] = Request(p, type, "POST", SlugOf(p, type))
            /\ (PublishOver(p, type) /\ ~IsNull(existingPosts)) => Len(sent) = 2
            /\ missingCredentials(creds) => sent = << >>

\* One run has updated the flight post, choosing the first of two posts the
\* lookup returned, and has created the hotel post.
UpdatedFirstAndCreated ==
    \E p \in Procs :
        /\ pub[p].pc = "done"
        /\ ~IsNull(pub[p].found["flights"])
        /\ Len(Val(pub[p].found["flights"]).items) = 2
        /\ RequestsOf(p, "flights")[2].method = "PUT"
        /\ RequestsOf(p, "flights")[2].target = 2
        /\ ~IsNull(pub[p].found["hotels"])
        /\ RequestsOf(p, "hotels")[2].method = "POST"

\* The positions in http of the requests of one method sent by run p for the
\* post of the given type.
PositionsOf(p, type, method) ==
    {i \in 1..Len(http) :
        http[i].proc = p /\ http[i].type = type /\ http[i].method = method}

\* Both runs looked the same slug up and were told that no post has it.
BothFoundNothing(type) ==
    /\ pub["a"].today = pub["b"].today
    /\ \A p \in Procs :
          /\ ~IsNull(pub[p].found[type])
          /\ Val(pub[p].found[type]) = PostList(<< >>)

\* C7.  When two runs for the same slug have both been told by their lookup
\* that no post has the slug, each of them sends a create call once it goes
\* on, and if both creates succeed the site holds two different posts with
\* that slug: nothing in publishToWordPress prevents it.
RacingRunsBothCreate ==
    \A type \in Types :
        BothFoundNothing(type) =>
            /\ \A p \in Procs :
                  PublishOver(p, type) =>
                      /\ PositionsOf(p, type, "POST") # {}
                      /\ PositionsOf(p, type, "PUT") = {}
            /\ (\A p \in Procs : ~IsNull(pub[p].results[type])) =>
                  /\ Val(pub["a"].results[type]).id
                        # Val(pub["b"].results[type]).id
                  /\ Len(PostsWithSlug(SlugOf("a", type))) >= 2
                  /\ \A p \in Procs :
                        Val(pub[p].results[type]).slug = Some(SlugOf(p, type))

\* Both lookups of the flight slug came before either create, both creates
\* succeeded, and the site, empty before, holds two posts with that slug.
TwoPostsWithOneSlug ==
    /\ BothFoundNothing("flights")
    /\ \A p, q \in Procs :
          \A i \in PositionsOf(p, "flights", "GET") :
              \A j \in PositionsOf(q, "flights", "POST") : i < j
    /\ \A p \in Procs : ~IsNull(pub[p].results["flights"])
    /\ Len(PostsWithSlug(SlugOf("a", "flights"))) = 2
    /\ Len(wp) = 2

\* C8.  generateAndPublish never ends with an exception from a publish: the
\* post type whose publish threw keeps a null result, and once the run is
\* over the other post type, if it has deals, was attempted and, unless its
\* own publish threw or credentials are missing, has its result recorded: the
\* post with that type's slug that the site holds.
PublishFailureIsConfined ==
    \A p \in Procs :
        /\ pub[p].pc # "crashed"
        /\ \A type \in Types :
              /\ pub[p].threw[type] => IsNull(pub[p].results[type])
              /\ (pub[p].pc = "done" /\ DealsOfType(pub[p], type) # << >>) =>
                    /\ type \in pub[p].attempted
                    /\ (~missingCredentials(creds) /\ ~pub[p].threw[type]) =>
                          /\ ~IsNull(pub[p].results[type])
                          /\ \E i \in 1..Len(wp) :
                                /\ wp[i].id = Val(pub[p].results[type]).id
                                /\ wp[i].slug = Some(SlugOf(p, type))

\* A run is over in which the flight publish threw and the hotel post was
\* published.
FlightPublishFailedHotelPublished ==
    \E p \in Procs :
        /\ pub[p].pc = "done"
        /\ pub[p].threw["flights"]
        /\ IsNull(pub[p].results["flights"])
        /\ ~IsNull(pub[p].results["hotels"])

----------------------------------------------------------------------------
(* Properties of rendering (SpecFn) *)

Rendering == call.fn \in {"generateFlightDealsPost", "generateHotelDealsPost"}

\* The card the templates give the deal at position i (from 1) of a call.
CardOfCall(i) ==
    IF call.fn = "generateFlightDealsPost"
    THEN [originName |-> Str(call.deals[i], "originName"),
          destinationName |-> Str(call.deals[i], "destinationName"),
          price |-> Str(call.deals[i], "price")]
    ELSE [hotelName |-> Str(call.deals[i], "hotelName"),
          location |-> Str(call.deals[i], "location"),
          price |-> Str(call.deals[i], "pricePerNight")]

\* The same fields of a rendered card.
CardShows(card) ==
    IF call.fn = "generateFlightDealsPost"
    THEN [originName |-> card.originName,
          destinationName |-> card.destinationName, price |-> card.price]
    ELSE [hotelName |-> card.hotelName, location |-> card.location,
          price |-> card.price]

FallbackCount(content) ==
    Cardinality({i \in 1..Len(content) : content[i].kind = "fallback"})

\* C11.  The content generateFlightDealsPost or generateHotelDealsPost renders
\* for zero deals holds the 'Check back later' paragraph and no deal card; for
\* one or more deals it holds no such paragraph and exactly one card per deal,
\* the i-th card showing the i-th deal.
RenderingFallbackOrCards ==
    (Rendering /\ ~IsNull(ret)) =>
        LET content == Val(ret).content
            cards == CardBlocks(content)
        IN  IF call.deals = << >>
            THEN FallbackCount(content) = 1 /\ cards = << >>
            ELSE /\ FallbackCount(content) = 0
                 /\ Len(cards) = Len(call.deals)
                 /\ \A i \in 1..Len(cards) : CardShows(cards[i]) = CardOfCall(i)

\* A post rendered from no deals, with its fallback paragraph.
RenderedNoDeals ==
    /\ Rendering /\ ~IsNull(ret)
    /\ call.deals = << >>
    /\ FallbackCount(Val(ret).content) = 1

----------------------------------------------------------------------------
(* Properties of the files the scrapers write (SpecScrapers) *)

\* The run has saved its list and exited with code 0.
Saved == pc \in {"f_idle", "h_idle"} /\ exitCode = Some(0)

\* The file the script of this behaviour writes.
OutputFile == IF pc \in {"f_idle", "f_save"} THEN flightsFile ELSE hotelsFile

\* C12.  The file a run has written is exactly { generated, count, deals }:
\* generated is the time of the save, deals is the list the run returned, and
\* count is the length of deals; nothing of the file's previous content
\* remains.
SavedFileIsGeneratedCountDeals ==
    Saved =>
        /\ DOMAIN OutputFile = {"status", "generated", "count", "deals"}
        /\ OutputFile.status = "ok"
        /\ OutputFile.generated = now
        /\ OutputFile.deals = topDeals
        /\ OutputFile.count = Len(OutputFile.deals)

\* A run has saved a list of two or more deals over a previous file, one of
\* whose records is not in the new file.
SavedOverPreviousFile ==
    /\ Saved
    /\ pc = "f_idle"
    /\ Len(flightsFile.deals) >= 2
    /\ existingDeals # << >>
    /\ AgedFlightList[1] \notin Range(flightsFile.deals)
    /\ AgedFlightList[3] \in Range(flightsFile.deals)

----------------------------------------------------------------------------
(* Properties of the day rotation (SpecFn) *)

FlightRotationCall == call.fn = "getTodayFlightRotation" /\ ~IsNull(ret)
HotelRotationCall == call.fn = "getTodayHotelRotation" /\ ~IsNull(ret)

\* The zero-based positions a list of n elements has.
Indices(list) == 0..(Len(list) - 1)

\* C14: for every day of the week 0..6 the rotation lookup returns the fixed
\* table entry of that day, and every index in the entry names an element of
\* the configured list: flight origin indices are within the 10 origin
\* cities, flight destination indices within the 12 destinations, hotel
\* indices within the 20 hotel destinations, so no mapped city is undefined.
RotationIsTotalAndValid ==
    /\ WeekDays \subseteq DOMAIN flightDayRotation
    /\ WeekDays \subseteq DOMAIN hotelDayRotation
    /\ FlightRotationCall =>
          /\ Val(ret).rotation = flightDayRotation[call.day]
          /\ Range(Val(ret).rotation.origins) \subseteq Indices(originCities)
          /\ Range(Val(ret).rotation.destinations) \subseteq Indices(destinations)
          /\ Len(Val(ret).origins) = Len(Val(ret).rotation.origins)
          /\ Len(Val(ret).destinations) = Len(Val(ret).rotation.destinations)
          /\ Range(Val(ret).origins) \subseteq Range(originCities)
          /\ Range(Val(ret).destinations) \subseteq Range(destinations)
    /\ HotelRotationCall =>
          /\ Val(ret).rotation = hotelDayRotation[call.day]
          /\ Range(Val(ret).rotation) \subseteq Indices(hotelDestinations)
          /\ Len(Val(ret).destinations) = Len(Val(ret).rotation)
          /\ Range(Val(ret).destinations) \subseteq Range(hotelDestinations)

\* The Saturday lookup of the flight scraper was made: five origins, four
\* destinations, the first origin being the first configured city.
SaturdayRotationLookedUp ==
    /\ FlightRotationCall
    /\ call.day = 6
    /\ Len(Val(ret).origins) = 5
    /\ Val(ret).origins[1] = originCities[1]
    /\ Val(ret).destinations[4] = "CUN"

\* The (origin, destination) pairs the route loop of scrapeFlightDeals visits
\* on day d: every origin of the day with every destination of the day.
RoutesOfDay(d) ==
    {<<o, x>> : o \in Range(todaysOrigins(d)), x \in Range(todaysDestinations(d))}

AllRoutes == {<<o, x>> : o \in Range(originCities), x \in Range(destinations)}

\* C15: full flight coverage over the week: every pair of a configured origin
\* and a configured destination is among the routes of the looked-up day or
\* of one of the other six days.
EveryRouteIsScrapedInTheWeek ==
    FlightRotationCall =>
        AllRoutes =
            {<<o, x>> : o \in Range(Val(ret).origins),
                        x \in Range(Val(ret).destinations)}
            \cup UNION {RoutesOfDay(d) : d \in WeekDays \ {call.day}}

\* C16: full hotel coverage over the week: every configured hotel destination
\* is among the destinations of the looked-up day or of one of the other six
\* days.
EveryHotelDestinationIsScrapedInTheWeek ==
    HotelRotationCall =>
        Range(hotelDestinations) =
            Range(Val(ret).destinations)
            \cup UNION {Range(todaysHotelDestinations(d)) :
                           d \in WeekDays \ {call.day}}

\* The Saturday lookup of the hotel scraper was made; it holds the last
\* configured destination, and the first one, which Sunday holds as well.
SaturdayHotelRotationLookedUp ==
    /\ HotelRotationCall
    /\ call.day = 6
    /\ hotelDestinations[Len(hotelDestinations)] \in Range(Val(ret).destinations)
    /\ hotelDestinations[1] \in Range(Val(ret).destinations)
    /\ hotelDestinations[1] \in Range(todaysHotelDestinations(0))

----------------------------------------------------------------------------
(* Properties of the discounts the scrapers return (SpecScrapers) *)

\* C17: every hotel deal in the list scrapeHotelDeals returns, and so every
\* hotel the post announces as "at least 25% off", has percentOff of 25 or
\* more.
EveryReturnedHotelDealIsTwentyFiveOff ==
    pc = "h_save" =>
        \A d \in Range(topDeals) : d.percentOff >= minDiscountPercent

----------------------------------------------------------------------------
(* Properties of the flight link (SpecFn) *)

LinkCall ==
    /\ call.fn \in {"generateExpediaLink", "generateExpediaLinkSearchParams"}
    /\ ~IsNull(ret)

\* MM/dd/yyyy of the calendar dates of the calls, written out.
DateAsWritten(date) ==
    CASE date = [year |-> 2025, month |-> 3, day |-> 5] -> "03/05/2025"
      [] date = [year |-> 2025, month |-> 12, day |-> 25] -> "12/25/2025"

PassengersAsWritten(n) == CASE n = 1 -> "1" [] n = 2 -> "2" [] n = 3 -> "3"

\* The link of the contract for origin O, destination D, the two dates and N
\* passengers.
LiteralLink(O, D, departDate, returnDate, N) ==
    "https://www.expedia.com/Flights-Search?trip=roundtrip&leg1=from:" \o O
        \o ",to:" \o D \o ",departure:" \o DateAsWritten(departDate)
        \o "TANYT&leg2=from:" \o D \o ",to:" \o O \o ",departure:"
        \o DateAsWritten(returnDate)
        \o "TANYT&passengers=adults:" \o PassengersAsWritten(N)
        \o "&AFFCID=US.DIRECT.PHG.1011l387199.etravelogs"

\* C18: for every origin, destination, departure date and return date,
\* generateExpediaLink returns exactly the literal link, the colons, commas
\* and slashes of the leg and passengers parameters present as they are,
\* never percent-encoded.
LinkIsTheLiteralLink ==
    LinkCall =>
        Val(ret) = LiteralLink(call.origin, call.dest, call.departDate,
                               call.returnDate, call.passengers)

\* The deals of this run that scrapeGoogleFlights made of a route whose lowest
\* price was $1.
OneDollarDeals ==
    {d \in Range(allDeals) :
        d.source = "Google Flights" /\ d.price = 1 /\ d.scrapedAt = now}

\* The cards of the flight post generated from the deals of a file.
CardsOfFile(file) ==
    CardBlocks(generateFlightDealsPost(DealsOrEmpty(file), 0).content)

\* C19: a lowest price of $1 is not rejected.  For every configured typical
\* price the percent-off of $1 rounds to 100 and passes the discount filter;
\* the deal of this run with price 1 has percentOff 100, is in the returned
\* list, and the first record of the returned list is such a deal; after the
\* save it is in flights.json, and the first card of the post generated from
\* the file shows the price 1 and 100% off.
OneDollarPriceIsPublished ==
    /\ pc \in {"f_routes", "f_save"} =>
          \A dest \in Range(destinations) :
              /\ PercentOff(TypicalPrice(dest), 1) = 100
              /\ PassesFlightFilter(PercentOff(TypicalPrice(dest), 1))
    /\ pc = "f_save" =>
          \A d \in OneDollarDeals :
              /\ d.percentOff = 100
              /\ d \in Range(topDeals)
              /\ topDeals[1] \in OneDollarDeals
    /\ (pc = "f_idle" /\ Saved) =>
          \A d \in OneDollarDeals :
              /\ d \in Range(flightsFile.deals)
              /\ flightsFile.deals[1] \in OneDollarDeals
              /\ CardsOfFile(flightsFile)[1].price = "1"
              /\ CardsOfFile(flightsFile)[1].percentOff = Some(100)
              /\ CardsOfFile(flightsFile)[1].originName = flightsFile.deals[1].origin
              /\ CardsOfFile(flightsFile)[1].destinationName
                    = flightsFile.deals[1].destination

\* A run that found a previous file with deals scraped a $1 price and saved:
\* the $1 deal leads the file, ahead of the records kept from the previous
\* file.
OneDollarDealSavedFirst ==
    /\ pc = "f_idle"
    /\ Saved
    /\ OneDollarDeals # {}
    /\ existingDeals # << >>
    /\ flightsFile.deals[1].price = 1
    /\ Len(flightsFile.deals) > 1

\* The run found no previous output file of either scraper.
NoPriorOutputFiles == flightsFile = MissingFile /\ hotelsFile = MissingFile

NoNegativePercentOff(deals) ==
    \A d \in Range(deals) : "percentOff" \in DOMAIN d => d.percentOff >= 0

\* C20 as amended: percent-off is bounded below by zero in what a run writes
\* when it starts from no prior output files: no record of the list the run
\* returns, and none of a file written by a run that kept nothing from a
\* previous file, has a negative percentOff.
\* A hotel card priced above its "Usually" price is written with percentOff 0.
FreshRunWritesNoNegativePercentOff ==
    /\ (Returned /\ NoPriorOutputFiles) => NoNegativePercentOff(topDeals)
    /\ (Saved /\ existingDeals = << >>) =>
          NoNegativePercentOff(DealsOrEmpty(OutputFile))

\* A hotel run that found no previous file returns the deal of a card priced
\* $140 against a "Usually" price of $100: its percentOff is 0.
MarkedUpCardReturnedAtZero ==
    /\ pc = "h_save"
    /\ NoPriorOutputFiles
    /\ \E d \in Range(topDeals) :
          /\ d.source = "Google Hotels"
          /\ d.pricePerNight = 140
          /\ d.originalPrice = Some(100)
          /\ d.percentOff = 0

\* C20 as stated: starting from no prior output files, a run whose scraped
\* price lies above the reference price writes a record with a negative
\* percentOff.
FreshRunWritesNegativePercentOff ==
    (/\ pc = "h_save"
     /\ NoPriorOutputFiles
     /\ \E d \in Range(topDeals) :
           /\ d.source = "Google Hotels"
           /\ ~IsNull(d.originalPrice)
           /\ d.pricePerNight > Val(d.originalPrice)) =>
        \E d \in Range(topDeals) : d.percentOff < 0

----------------------------------------------------------------------------
(* Properties of publishing one call after another (SpecPublish) *)

\* The positions in http of all requests run p has sent for the given type.
AllPositionsOf(p, type) ==
    {i \in 1..Len(http) : http[i].proc = p /\ http[i].type = type}

\* Every create so far succeeded when no request failed, so the site held
\* this many posts before the runs.
InitialSiteSize ==
    Len(wp) - Cardinality({i \in 1..Len(http) : http[i].method = "POST"})

\* Run p publishes the post of the type strictly before run q does: every
\* request of p for it precedes every request of q for it, and p is through
\* with it when q looks the slug up.
PublishedBefore(p, q, type) ==
    /\ AllPositionsOf(p, type) # {}
    /\ AllPositionsOf(q, type) # {}
    /\ Cardinality(AllPositionsOf(p, type)) = 2
    /\ \A i \in AllPositionsOf(p, type), j \in AllPositionsOf(q, type) : i < j

\* C21: no duplicate posts under sequential publishing.  When no request has
\* failed, the site held no post of the slug before the runs, and the two
\* calls for one slug ran one after the other, then the first call sent the
\* only create, the later call sends no create and, once it has written, has
\* sent an update to the post the first call created; the site holds exactly
\* one post with the slug.
SequentialPublishCreatesOnce ==
    \A type \in Types : \A p, q \in Procs :
        (/\ errors = 0
         /\ pub[p].today = pub[q].today
         /\ PublishedBefore(p, q, type)
         /\ \A i \in 1..Len(wp) :
               wp[i].slug = Some(SlugOf(p, type)) => wp[i].id > InitialSiteSize) =>
            /\ PositionsOf(p, type, "POST") # {}
            /\ PositionsOf(q, type, "POST") = {}
            /\ Len(PostsWithSlug(SlugOf(p, type))) = 1
            /\ \A j \in PositionsOf(q, type, "PUT") :
                  /\ http[j].target = Val(pub[p].results[type]).id
                  /\ http[j].target = PostsWithSlug(SlugOf(p, type))[1].id
            /\ PublishOver(q, type) =>
                  /\ PositionsOf(q, type, "PUT") # {}
                  /\ Val(pub[q].results[type]).id = Val(pub[p].results[type]).id

\* Run a created the flight post on a site without it, run b then looked the
\* slug up, found that post and updated it; both runs are over.
CreatedThenUpdated ==
    /\ errors = 0
    /\ pub["a"].today = pub["b"].today
    /\ PublishedBefore("a", "b", "flights")
    /\ PositionsOf("a", "flights", "POST") # {}
    /\ PositionsOf("b", "flights", "PUT") # {}
    /\ Len(PostsWithSlug(SlugOf("a", "flights"))) = 1
    /\ pub["a"].pc = "done"
    /\ pub["b"].pc = "done"

----------------------------------------------------------------------------
(* Properties of the merge with the previous file (SpecScrapers) *)

\* The deals the run that has returned scraped itself: the merged list
\* without the loaded deals at its end.
FreshDeals == SubSeq(allDeals, 1, Len(allDeals) - Len(existingDeals))

\* C22: merge prefers the fresh record.  In the merged list the deals of this
\* run, which carry the current scrapedAt, come before the loaded ones; when
\* a deal of this run and a loaded deal share a composite key, every record
\* of that key in the deduplicated list and in the returned list is the first
\* deal of this run with that key, and the deduplicated list holds it.
MergeKeepsFreshRecord ==
    Returned =>
        /\ allDeals = FreshDeals \o existingDeals
        /\ \A i \in 1..Len(FreshDeals) : FreshDeals[i].scrapedAt = now
        /\ \A i \in 1..Len(FreshDeals) : \A e \in Range(existingDeals) :
              (/\ KeyParts(FreshDeals[i]) = KeyParts(e)
               /\ \A j \in 1..(i - 1) :
                     KeyParts(FreshDeals[j]) # KeyParts(e)) =>
                  /\ FreshDeals[i] \in Range(UniqueDeals)
                  /\ \A d \in Range(UniqueDeals) \cup Range(topDeals) :
                        KeyParts(d) = KeyParts(e) => d = FreshDeals[i]

\* A run scraped a deal whose key a younger-than-seven-days record of the
\* previous file has; the returned list holds the record of this run and not
\* the loaded one.
FreshRecordReplacedLoaded ==
    /\ Returned
    /\ \E i \in 1..Len(FreshDeals) : \E e \in Range(existingDeals) :
          /\ KeyParts(FreshDeals[i]) = KeyParts(e)
          /\ e.scrapedAt < now
          /\ FreshDeals[i] \in Range(topDeals)
          /\ e \notin Range(topDeals)

----------------------------------------------------------------------------
(* Properties of runAllScrapers (SpecRunAll) *)

\* The positions of an event in the log of the run.
LogPositions(event) == {i \in 1..Len(runAll.log) : runAll.log[i] = event}
Logged(event) == LogPositions(event) # {}

FlightsEnd == {"flights saved", "flights save threw", "flights threw"}
HotelsEnd == {"hotels saved", "hotels save threw", "hotels threw"}

\* deals.json has been written by this run.
CombinedWritten == dealsFile # MissingFile

\* C23: runAllScrapers isolates scraper failures.  However the flight scraper
\* and its save end, the hotel scraper is started next, and not before; a
\* scraper that throws leaves its list empty; the run always reaches the
\* write of deals.json, which comes after both scrapers have ended; in
\* deals.json the two totals are the lengths of flights and hotels, and the
\* two best deals are their first elements, null for an empty array.
RunAllIsolatesScraperFailures ==
    /\ \A i \in 1..Len(runAll.log) :
          /\ runAll.log[i] \in FlightsEnd =>
                /\ i < Len(runAll.log)
                /\ runAll.log[i + 1] = "hotels started"
          /\ runAll.log[i] = "hotels started" =>
                /\ i > 1
                /\ runAll.log[i - 1] \in FlightsEnd
          /\ runAll.log[i] \in {"combined written", "combined threw"} =>
                /\ i = Len(runAll.log)
                /\ runAll.log[i - 1] \in HotelsEnd
                /\ Logged("hotels started")
    /\ Logged("flights threw") => runAll.flightDeals = << >>
    /\ Logged("hotels threw") => runAll.hotelDeals = << >>
    /\ pc = "r_done" =>
          /\ Logged("combined written") \/ Logged("combined threw")
          /\ Logged("combined written") <=> CombinedWritten
    /\ CombinedWritten =>
          /\ pc = "r_done"
          /\ dealsFile.flights = runAll.flightDeals
          /\ dealsFile.hotels = runAll.hotelDeals
          /\ dealsFile.summary.totalFlightDeals = Len(dealsFile.flights)
          /\ dealsFile.summary.totalHotelDeals = Len(dealsFile.hotels)
          /\ dealsFile.summary.bestFlightDeal =
                (IF dealsFile.flights = << >> THEN Null
                 ELSE Some(dealsFile.flights[1]))
          /\ dealsFile.summary.bestHotelDeal =
                (IF dealsFile.hotels = << >> THEN Null
                 ELSE Some(dealsFile.hotels[1]))

\* The flight scraper threw, the hotel scraper returned deals, its save
\* threw, and deals.json was written with no flights and those hotels.
FlightsThrewHotelsCombined ==
    /\ pc = "r_done"
    /\ Logged("flights threw")
    /\ Logged("hotels save threw")
    /\ CombinedWritten
    /\ dealsFile.flights = << >>
    /\ dealsFile.summary.bestFlightDeal = Null
    /\ Len(dealsFile.hotels) >= 2
    /\ dealsFile.summary.totalHotelDeals = Len(dealsFile.hotels)

\* C24 as amended: once deals.json is written, its flights array equals the
\* deals array of flights.json if the flight scraper returned and its save
\* succeeded in this run, and its hotels array equals the deals array of
\* hotels.json if the hotel scraper returned and its save succeeded; the
\* counts of the files are then the totals of the summary.  After a scraper
\* that threw the array is empty, whatever the file holds.
CombinedMatchesSavedFiles ==
    CombinedWritten =>
        /\ Logged("flights saved") =>
              /\ dealsFile.flights = flightsFile.deals
              /\ dealsFile.summary.totalFlightDeals = flightsFile.count
        /\ Logged("hotels saved") =>
              /\ dealsFile.hotels = hotelsFile.deals
              /\ dealsFile.summary.totalHotelDeals = hotelsFile.count
        /\ Logged("flights threw") => dealsFile.flights = << >>
        /\ Logged("hotels threw") => dealsFile.hotels = << >>

\* Both scrapers returned deals, both saves succeeded and deals.json was
\* written.
BothSavedAndCombined ==
    /\ CombinedWritten
    /\ Logged("flights saved")
    /\ Logged("hotels saved")
    /\ dealsFile.flights # << >>
    /\ dealsFile.hotels # << >>
    /\ dealsFile.flights = flightsFile.deals
    /\ dealsFile.hotels = hotelsFile.deals

\* C24 as stated: after runAllScrapers has written deals.json, its flights
\* array equals the deals array of flights.json and its hotels array the deals
\* array of hotels.json (no deals where the file is missing), whatever the
\* outcome of the scrapers and saves.
CombinedMirrorsFiles ==
    (pc = "r_done" /\ CombinedWritten) =>
        /\ dealsFile.flights = DealsOrEmpty(flightsFile)
        /\ dealsFile.hotels = DealsOrEmpty(hotelsFile)

\* The part of C25 every run satisfies: the rotationDay of deals.json is the
\* day index read at the start of the run, the one the flight scraper selects
\* its rotation with, also under a clock that passes midnight; the
\* hotel scraper reads its own day index when it starts, which is that day or
\* the next, decides the aggregator check on it, and agrees with rotationDay
\* whenever the clock did not pass midnight during the run.
RotationDayIsTheStartDay ==
    CombinedWritten =>
        /\ dealsFile.rotationDay = runAll.dayOfWeek
        /\ runAll.flightDay = Some(dealsFile.rotationDay)
        /\ runAll.hotelDay \in {Some(dealsFile.rotationDay),
                                Some((dealsFile.rotationDay + 1) % 7)}
        /\ Logged("hotels returned") =>
              runAll.aggregator = IsWeekend(Val(runAll.hotelDay))
        /\ DayOfWeek(dealsFile.generated) = dealsFile.rotationDay =>
              runAll.hotelDay = Some(dealsFile.rotationDay)

\* A run that stayed within Sunday: both scrapers returned, the hotel scraper
\* checked the aggregator page and deals.json records day 0.
RunWithinOneDayCombined ==
    /\ CombinedWritten
    /\ Logged("flights returned")
    /\ Logged("hotels returned")
    /\ DayOfWeek(dealsFile.generated) = dealsFile.rotationDay
    /\ runAll.flightDay = Some(0)
    /\ runAll.hotelDay = Some(0)
    /\ runAll.aggregator
    /\ dealsFile.rotationDay = 0

\* C25 as stated: the rotationDay of deals.json equals the day index of the
\* flight scraper and the day index of the hotel scraper, the one that decides
\* the weekend-only aggregator check, in every run.
RotationDayIsEveryScrapersDay ==
    CombinedWritten =>
        /\ runAll.flightDay = Some(dealsFile.rotationDay)
        /\ runAll.hotelDay = Some(dealsFile.rotationDay)
        /\ Logged("hotels returned") =>
              runAll.aggregator = IsWeekend(dealsFile.rotationDay)

\* C26: when publishToWordPress finds an existing post, the body of its PUT
\* holds content and excerpt only, and the update leaves the number of posts
\* and the id, title, slug, status, categories and tags of every post of the
\* site as they were; after a successful update the post it addressed holds
\* the new content and excerpt.
UpdateLeavesMetadataUntouched ==
    [][\A p \in Procs :
          (/\ pub[p].pc = "write"
           /\ pub'[p].pc # "write"
           /\ Len(http') = Len(http) + 1
           /\ http'[Len(http')].proc = p
           /\ http'[Len(http')].method = "PUT")
          => LET type == pub[p].type
                 post == PostOfType(pub[p], type)
                 id == http'[Len(http')].target
             IN  /\ DOMAIN updateData(post) = {"content", "excerpt"}
                 /\ Len(wp') = Len(wp)
                 /\ \A i \in 1..Len(wp) :
                       /\ wp'[i].id = wp[i].id
                       /\ wp'[i].title = wp[i].title
                       /\ wp'[i].slug = wp[i].slug
                       /\ wp'[i].status = wp[i].status
                       /\ wp'[i].categories = wp[i].categories
                       /\ wp'[i].tags = wp[i].tags
                 /\ pub'[p].results[type] # Null =>
                       \A i \in 1..Len(wp) :
                           wp[i].id = id =>
                               /\ wp'[i].content = post.content
                               /\ wp'[i].excerpt = post.excerpt]_vars

\* A draft found by the lookup has been updated: it carries the content of
\* the run under its old title, status, categories and tags.
DraftUpdatedKeepsMetadata ==
    \E k \in 1..Len(http), i \in 1..Len(wp) :
        /\ http[k].method = "PUT"
        /\ http[k].target = wp[i].id
        /\ pub[http[k].proc].results[http[k].type] # Null
        /\ wp[i].title = OldFlightPost(1).title
        /\ wp[i].status = "draft"
        /\ wp[i].categories = <<1>>
        /\ wp[i].tags = <<7>>
        /\ wp[i].excerpt = PostOfType(pub[http[k].proc], http[k].type).excerpt

\* The deals file of a post type, and whether it yields no deals: missing,
\* unreadable, unparsable, without a deals key or with an empty deals array.
FileOfType(type) == IF type = "flights" THEN flightsFile ELSE hotelsFile
YieldsNoDeals(file) == Unusable(file) \/ DealsOrEmpty(file) = << >>

\* C27.  A run of generateAndPublish attempts the publish of a post type only
\* if the list loaded for that type is non-empty, and then it does attempt it;
\* when the file of the type is empty, missing or unreadable the run sends no
\* request for the type and its entry in results stays null.  generatePosts on
\* the same two files does not throw, builds both posts and writes the four
\* files of both.
PublishOnlyWithDeals ==
    \A p \in Procs :
        pub[p].pc \notin {"idle", "crashed"} =>
            /\ \A type \in Types :
                  /\ type \in pub[p].attempted =>
                        /\ Len(DealsOfType(pub[p], type)) > 0
                        /\ ~YieldsNoDeals(FileOfType(type))
                  /\ RequestsOf(p, type) # << >> => type \in pub[p].attempted
                  /\ (PublishOver(p, type) /\ ~YieldsNoDeals(FileOfType(type)))
                        => type \in pub[p].attempted
                  /\ YieldsNoDeals(FileOfType(type)) =>
                        /\ DealsOfType(pub[p], type) = << >>
                        /\ RequestsOf(p, type) = << >>
                        /\ pub[p].results[type] = Null
                        /\ ~pub[p].threw[type]
            /\ LET local == generatePosts(flightsFile, hotelsFile, pub[p].today)
               IN  /\ ~local.threw
                   /\ local.flightPost =
                         generateFlightDealsPost(pub[p].flightDeals, pub[p].today)
                   /\ local.hotelPost =
                         generateHotelDealsPost(pub[p].hotelDeals, pub[p].today)
                   /\ local.written =
                         {"flight-deals-post.json", "hotel-deals-post.json",
                          "flight-deals-content.html",
                          "hotel-deals-content.html"}

\* A run with credentials is over: flights.json gave no deals and nothing was
\* sent for flights, while the hotel post was published.
FlightsSkippedHotelsPublished ==
    \E p \in Procs :
        /\ pub[p].pc = "done"
        /\ YieldsNoDeals(flightsFile)
        /\ RequestsOf(p, "flights") = << >>
        /\ pub[p].results["flights"] = Null
        /\ pub[p].results["hotels"] # Null
        /\ generatePosts(flightsFile, hotelsFile, pub[p].today)
              .flightPost.excerpt.count = 0

\* C28.  When the username or the application password is not configured
\* (unset or empty), no publishToWordPress call sends a request -- no lookup,
\* no create, no update -- each call returns null, so the entries of results
\* stay null, and none throws.
NoCredentialsNoRequest ==
    (\/ creds.username \in {Null, Some("")}
     \/ creds.appPassword \in {Null, Some("")})
    => /\ http = << >>
       /\ \A p \in Procs :
             /\ pub[p].pc \notin {"lookup", "write", "crashed"}
             /\ \A type \in Types :
                   /\ pub[p].results[type] = Null
                   /\ pub[p].found[type] = Null
                   /\ ~pub[p].threw[type]

\* A run with a username but no application password called
\* publishToWordPress for both posts and is over.
CalledTwiceWithoutPassword ==
    \E p \in Procs :
        /\ creds.username = Some("editor")
        /\ creds.appPassword \in {Null, Some("")}
        /\ pub[p].pc = "done"
        /\ pub[p].attempted = Types
        /\ http = << >>
        /\ pub[p].results = [t \in Types |-> Null]

\* The dollar amounts matched in the price elements, and the least of them.
MatchedAmounts(elems) ==
    {Val(elems[i]) : i \in {j \in 1..Len(elems) : ~IsNull(elems[j])}}
LeastMatched(elems) ==
    IF MatchedAmounts(elems) = {} THEN Null
    ELSE Some(CHOOSE m \in MatchedAmounts(elems) :
                 \A n \in MatchedAmounts(elems) : m <= n)

\* C29.  For every sequence of price elements of a page that was read, the
\* lowestPrice scrapeGoogleFlights works with is the minimum of the dollar
\* amounts matched in the elements, null when none matched, and a deal it
\* returns carries that minimum as its price.
LowestPriceIsTheMinimum ==
    (~IsNull(ret) /\ call.fn = "scrapeGoogleFlights" /\ ~call.page.throws) =>
        /\ LowestPrice(call.page.elems) = LeastMatched(call.page.elems)
        /\ \A i \in 1..Len(Val(ret)) :
              Some(Val(ret)[i].price) = LeastMatched(call.page.elems)

\* Without a "$0" among the matched amounts the loop does give the minimum.
LowestPriceIsTheMinimumWithoutZero ==
    (~IsNull(ret) /\ call.fn = "scrapeGoogleFlights" /\ ~call.page.throws
       /\ 0 \notin MatchedAmounts(call.page.elems)) =>
        /\ LowestPrice(call.page.elems) = LeastMatched(call.page.elems)
        /\ \A i \in 1..Len(Val(ret)) :
              Some(Val(ret)[i].price) = LeastMatched(call.page.elems)

====
